---- MODULE Spec2Model ----
(***************************************************************************)
(* Model of the mothics recorder (mothics/track.py, class Track) and of    *)
(* the metadata index (mothics/database.py, class Database).               *)
(*                                                                         *)
(* Python values are modelled as follows.                                  *)
(*   None / a value        <<>> / <<v>>                                    *)
(*   datetime              [sec |-> s, micro |-> u]                        *)
(*   scalar                <<"int", n>>, <<"float", n>>, <<"str", s>>,     *)
(*                         <<"bool", b>>, <<"None">>                       *)
(*   dict                  a function from its keys                        *)
(*   DataPoint             [timestamp |-> datetime, input_data |-> dict]   *)
(*   a float fraction      [num |-> n, den |-> d]                          *)
(* A file is [dir, name, mtime, content]; dir "out" is Track.output_dir    *)
(* (Database.directory) and dir "chk" its chk subdirectory.  A file name   *)
(* "<ts><tag>[.chk].<ext>" is [ts, tag, chk, ext].                         *)
(***************************************************************************)
EXTENDS Integers, Sequences, FiniteSets, TLC

VARIABLES
    \* ---- Track attributes (track.py 276-301)
    data_points,          \* self.data_points
    field_names,          \* self.field_names (None or a set of keys)
    mode,                 \* self.mode
    save_mode,            \* self.save_mode
    checkpoint_interval,  \* self.checkpoint_interval (None or seconds)
    max_checkpoint_files, \* self.max_checkpoint_files
    trim_fraction,        \* self.trim_fraction
    max_datapoints,       \* self.max_datapoints
    replay_index,         \* self._replay_index
    last_checkpoint,      \* self._last_checkpoint (None or a time)
    save_interval_start,  \* self._save_interval_start (None or an index)
    \* ---- Database attributes (database.py 287-303)
    db,                   \* self.db: the TinyDB documents, in insertion order
    validation,           \* self.validation
    exporting,            \* the calls of export_track that have not returned,
                          \* by caller: where each is and its local variables
    \* ---- environment
    files,                \* the files of output_dir and output_dir/chk
    now,                  \* the wall clock, in seconds
    fed,                  \* number of samples the producer has fed so far
    \* ---- what the last call did, as its caller observes it
    last_op,              \* [name, arg, raised, after]
    written,              \* files the last call wrote
    removed               \* files the last call deleted

track_vars == <<data_points, field_names, mode, save_mode, checkpoint_interval,
                max_checkpoint_files, trim_fraction, max_datapoints,
                replay_index, last_checkpoint, save_interval_start>>
db_vars == <<db, validation, exporting>>
vars == <<track_vars, db_vars, files, now, fed, last_op, written, removed>>

-----------------------------------------------------------------------------
(* Bounds of the model *)

\* the producer feeds at most MaxFed samples
MaxFed == 3
\* the clock runs from 1 to MaxTime
MaxTime == 2

-----------------------------------------------------------------------------
(* Python helpers *)

None == <<>>
Some(x) == <<x>>

Min(a, b) == IF a <= b THEN a ELSE b
Max(a, b) == IF a >= b THEN a ELSE b

\* seq[start:stop] for start None or an int, stop an int
PySlice(s, start, stop) ==
    LET n == Len(s)
        Norm(i) == IF i < 0 THEN Max(i + n, 0) ELSE Min(i, n)
        lo == IF start = None THEN 0 ELSE Norm(start[1])
        hi == Norm(stop)
    IN  IF lo >= hi THEN <<>> ELSE SubSeq(s, lo + 1, hi)

\* del seq[start:end] for 0 <= start, end <= len
PyDel(s, start, end) ==
    IF start >= end THEN s
    ELSE SubSeq(s, 1, start) \o SubSeq(s, end + 1, Len(s))

\* int(n * fraction) for a fraction already clamped to [0, 1]
IntTimes(n, fraction) == (n * fraction.num) \div fraction.den

\* max(0.0, min(fraction, 1.0))
Clamp01(fraction) ==
    IF fraction.num < 0 THEN [num |-> 0, den |-> 1]
    ELSE IF fraction.num > fraction.den THEN [num |-> 1, den |-> 1]
    ELSE fraction

\* the callers of export_track: two requests of the web application
\* (blueprints/bp_database.py 64-74), each with its position in the method
\* ("idle" before a call, "export" after the test of line 604 found no
\* derivative, "update" before line 628, "returned") and its local variables
Callers == {1, 2}
IdleCall ==
    [pc |-> "idle", track_id |-> <<>>, export_format |-> "", track |-> <<>>,
     wrote |-> FALSE]
NoExport == [c \in Callers |-> IdleCall]

-----------------------------------------------------------------------------
(* Exporters and the loader (track.py 96-120, 338-359) *)

\* mutant: the timestamp is written to the second, as the file names are
DatetimeStr_seconds(dt) == [sec |-> dt.sec, frac |-> None]

\* str(datetime): "YYYY-MM-DD HH:MM:SS", then ".ffffff" only when microsecond /= 0
DatetimeStr(dt) ==
    [sec |-> dt.sec, frac |-> IF dt.micro = 0 THEN None ELSE Some(dt.micro)]

\* datetime.fromisoformat: an absent fraction reads as microsecond 0
FromIsoFormat(str) ==
    [sec |-> str.sec, micro |-> IF str.frac = None THEN 0 ELSE str.frac[1]]

\* json.dump of a scalar: a float is written with a fraction part, an int
\* without one; True/False/None become the literals true/false/null
JsonOfScalar(v) ==
    CASE v[1] = "int" -> <<"number", v[2], FALSE>>
      [] v[1] = "float" -> <<"number", v[2], TRUE>>
      [] v[1] = "str" -> <<"string", v[2]>>
      [] v[1] = "bool" -> <<"literal", IF v[2] THEN "true" ELSE "false">>
      [] v[1] = "None" -> <<"literal", "null">>

\* json.load of a JSON scalar
ScalarOfJson(j) ==
    CASE j[1] = "number" -> IF j[3] THEN <<"float", j[2]>> ELSE <<"int", j[2]>>
      [] j[1] = "string" -> <<"str", j[2]>>
      [] j[1] = "literal" /\ j[2] = "null" -> <<"None">>
      [] j[1] = "literal" -> <<"bool", j[2] = "true">>

\* asdict(dp) under json.dump(..., default=str): the timestamp, no JSON type,
\* goes through str()
JsonOfDataPoint(dp) ==
    [timestamp |-> <<"string", DatetimeStr(dp.timestamp)>>,
     input_data |-> [k \in DOMAIN dp.input_data |-> JsonOfScalar(dp.input_data[k])]]

\* DataPoint(datetime.fromisoformat(dp["timestamp"]), dp["input_data"])
DataPointOfJson(o) ==
    [timestamp |-> FromIsoFormat(o.timestamp[2]),
     input_data |-> [k \in DOMAIN o.input_data |-> ScalarOfJson(o.input_data[k])]]

\* interval: None, or <<start, stop>> for slice(start, stop)
Sliced(dps, interval) ==
    IF interval = None THEN dps ELSE PySlice(dps, interval[1][1], interval[1][2])

\* the document export_to_json writes
export_to_json(dps, interval) ==
    LET out == Sliced(dps, interval)
    IN  [parses |-> TRUE, doc |-> [i \in 1..Len(out) |-> JsonOfDataPoint(out[i])]]

\* the data points Track.load builds from a parsed document
LoadedDataPoints(content) ==
    [i \in 1..Len(content.doc) |-> DataPointOfJson(content.doc[i])]

\* isoformat(): as str(datetime) but with "T" between date and time; the
\* fraction is dropped when microsecond = 0 all the same
IsoFormat(dt) == DatetimeStr(dt)

\* what csv.DictWriter writes for a value: str(value), and "" for None
CsvCell(v) ==
    CASE v[1] = "int" -> ToString(v[2])
      [] v[1] = "float" -> ToString(v[2]) \o ".0"
      [] v[1] = "str" -> v[2]
      [] v[1] = "bool" -> IF v[2] THEN "True" ELSE "False"
      [] v[1] = "None" -> ""

\* the row of a data point under the columns of fields: restval "" for a
\* column the point lacks (track.py 156-158)
CsvRow(dp, fields) ==
    [timestamp |-> IsoFormat(dp.timestamp),
     cells |-> [k \in fields |-> IF k \in DOMAIN dp.input_data
                                  THEN CsvCell(dp.input_data[k]) ELSE ""]]

\* the index of the first point with a key outside fields, where
\* DictWriter.writerow raises ValueError; 0 when there is none
FirstExtraKey(out, fields) ==
    LET bad == {i \in 1..Len(out) : ~(DOMAIN out[i].input_data \subseteq fields)}
    IN  IF bad = {} THEN 0 ELSE CHOOSE i \in bad : \A j \in bad : i <= j

\* export_to_csv(data_points, filename, interval) (track.py 122-158): the
\* exception it raises ("" for none), whether it opened the file, and what the
\* file then holds
export_to_csv(dps, interval) ==
    LET out == Sliced(dps, interval)
        fields == DOMAIN out[1].input_data
        stop == FirstExtraKey(out, fields)
        n == IF stop = 0 THEN Len(out) ELSE stop - 1
    IN  IF out = <<>>
        THEN [raised |-> "IndexError", wrote |-> FALSE,
              content |-> [parses |-> FALSE, doc |-> <<>>]]
        ELSE [raised |-> IF stop = 0 THEN "" ELSE "ValueError", wrote |-> TRUE,
              content |-> [parses |-> FALSE, doc |-> <<>>,
                           csv |-> [header |-> fields,
                                    rows |-> [i \in 1..n |-> CsvRow(out[i], fields)]]]]

\* the keys export_to_gpx takes for latitude and longitude (track.py 201-202)
LatKeys == {"lat"}
LonKeys == {"lon", "long"}

\* a dict is iterated in the order its keys were inserted: the producer
\* builds every sample with its keys in this order
KeyOrder == <<"a", "b", "c", "lat", "lon", "long">>

\* next(key for key in dp.input_data if ...): the first of keys in that order
FirstKey(keys) ==
    KeyOrder[CHOOSE i \in 1..Len(KeyOrder) :
                /\ KeyOrder[i] \in keys
                /\ \A j \in 1..(i - 1) : KeyOrder[j] \notin keys]

\* dp.input_data.get(key) for the first key of a kind: None when no key of
\* the kind is there or its value is None
GpxCoordinate(dp, kind) ==
    LET keys == DOMAIN dp.input_data \cap kind
    IN  IF keys = {} THEN <<"None">> ELSE dp.input_data[FirstKey(keys)]

\* mutant: a point is emitted for every data point
GpxEmitted_all(out) == out

\* the data points export_to_gpx emits a point for: the others are skipped
\* (track.py 199-209)
GpxEmitted(out) ==
    SelectSeq(out, LAMBDA dp : /\ GpxCoordinate(dp, LatKeys) # <<"None">>
                               /\ GpxCoordinate(dp, LonKeys) # <<"None">>)

\* export_to_gpx(data_points, filename, interval) (track.py 160-224)
export_to_gpx(dps, interval) ==
    LET emitted == GpxEmitted(Sliced(dps, interval))
    IN  [raised |-> "", wrote |-> TRUE,
         content |-> [parses |-> FALSE, doc |-> <<>>,
                      gpx |-> [i \in 1..Len(emitted) |->
                                 [lat |-> CsvCell(GpxCoordinate(emitted[i], LatKeys)),
                                  lon |-> CsvCell(GpxCoordinate(emitted[i], LonKeys)),
                                  time |-> IsoFormat(emitted[i].timestamp)]]]]

\* a caller-supplied exporter: it writes what it is given to the path it is
\* given
custom_export(dps, interval) ==
    [raised |-> "", wrote |-> TRUE,
     content |-> [parses |-> FALSE, doc |-> <<>>, custom |-> Sliced(dps, interval)]]

\* file_format as save() takes it: a format name, or a callable
Callable == "<callable>"
IsCallable(file_format) == file_format = Callable

\* the keys of _export_methods (track.py 226)
ExportFormats == {"json", "csv", "gpx"}

\* _export_methods[file_format] applied (track.py 226)
ExportMethod(file_format, dps, interval) ==
    CASE file_format = "json" ->
            [raised |-> "", wrote |-> TRUE, content |-> export_to_json(dps, interval)]
      [] file_format = "csv" -> export_to_csv(dps, interval)
      [] file_format = "gpx" -> export_to_gpx(dps, interval)

-----------------------------------------------------------------------------
(* Files *)

FileName(ts, tag, chk, ext) == [ts |-> ts, tag |-> tag, chk |-> chk, ext |-> ext]

\* fname defaults to now.strftime("%Y%m%d-%H%M%S") (track.py 380-381)
DefaultFname(t) == FileName(t, "", FALSE, "json")

\* now.strftime(...) + specifier + ".chk", then ".json" (track.py 492-494, 397)
CheckpointFname(t, specifier) ==
    FileName(t, IF specifier = None THEN "" ELSE specifier[1], TRUE, "json")

Path(dir, name) == [dir |-> dir, name |-> name]
PathOf(f) == Path(f.dir, f.name)

\* the file at a path, and whether there is one
FileAt(fs, path) == CHOOSE f \in fs : PathOf(f) = path
Exists(fs, path) == \E f \in fs : PathOf(f) = path

\* open(path, "w") and write: replaces a file of the same path
WriteFile(fs, dir, name, t, content) ==
    {f \in fs : PathOf(f) # Path(dir, name)}
        \cup {[dir |-> dir, name |-> name, mtime |-> t, content |-> content]}

\* mutant: the "-full" checkpoints are not set apart from the others
NonFullCheckpoints_all(fs) ==
    {f \in fs : f.dir = "chk" /\ f.name.chk /\ f.name.ext = "json"}

\* glob(checkpoint_dir/*.chk.json) without the names matching -full\.chk\.json$
NonFullCheckpoints(fs) ==
    {f \in fs : /\ f.dir = "chk" /\ f.name.chk /\ f.name.ext = "json"
                /\ f.name.tag # "-full"}

FullCheckpoints(fs) ==
    {f \in fs : /\ f.dir = "chk" /\ f.name.chk /\ f.name.ext = "json"
                /\ f.name.tag = "-full"}

\* mutant: the list is sorted newest first
OldestFile_newest(S) == CHOOSE f \in S : \A g \in S : f.mtime >= g.mtime

\* chk_files.sort(key=os.path.getmtime); chk_files[0]
OldestFile(S) == CHOOSE f \in S : \A g \in S : f.mtime <= g.mtime

-----------------------------------------------------------------------------
(* Track (track.py 230-607).  The methods that call one another are         *)
(* operators on st = [data_points, files, last_checkpoint, written,         *)
(* removed], the part of the state they read and change within one call.    *)

TrackState ==
    [data_points |-> data_points, files |-> files,
     last_checkpoint |-> last_checkpoint, written |-> {}, removed |-> {}]

\* Track.save(file_format="json", fname, output_dir, interval): the export is
\* inside try/except, the file is written at the current time
save(st, fname, output_dir, interval) ==
    [st EXCEPT
        !.files = WriteFile(st.files, output_dir, fname, now,
                            export_to_json(st.data_points, interval)),
        !.written = st.written \cup {Path(output_dir, fname)}]

\* mutant: the exporter creates its file and does not replace one that is
\* there
save_format_exclusive(st, file_format, fname, output_dir, interval) ==
    IF IsCallable(file_format) \/ file_format \notin ExportFormats
    THEN st
    ELSE LET res == ExportMethod(file_format, st.data_points, interval)
             name == [fname EXCEPT !.ext = file_format]
         IN  IF res.wrote /\ ~Exists(st.files, Path(output_dir, name))
             THEN [st EXCEPT
                     !.files = WriteFile(st.files, output_dir, name, now, res.content),
                     !.written = st.written \cup {Path(output_dir, name)}]
             ELSE st

\* Track.save(file_format, fname, output_dir, interval) for any file_format
\* (track.py 386-403).  The path is built inside the try: fname + '.' +
\* file_format raises TypeError for a callable before export is called; an
\* unsupported name leaves export unbound and the call raises
\* UnboundLocalError.  Both, and what an exporter raises, are caught and
\* logged; a file the exporter opened before it raised stays.
save_format(st, file_format, fname, output_dir, interval) ==
    IF IsCallable(file_format) \/ file_format \notin ExportFormats
    THEN st
    ELSE LET res == ExportMethod(file_format, st.data_points, interval)
             name == [fname EXCEPT !.ext = file_format]
         IN  IF res.wrote
             THEN [st EXCEPT
                     !.files = WriteFile(st.files, output_dir, name, now, res.content),
                     !.written = st.written \cup {Path(output_dir, name)}]
             ELSE st

\* os.remove(f)
Remove(st, f) ==
    [st EXCEPT !.files = st.files \ {f},
               !.removed = st.removed \cup {PathOf(f)}]

\* mutant: the data points are removed from the end of the buffer
remove_datapoints_tail(dps, start, fraction) ==
    IF dps = <<>> THEN dps
    ELSE SubSeq(dps, 1, Len(dps) - IntTimes(Len(dps), Clamp01(fraction)))

\* Track._remove_datapoints(start, fraction) (track.py 405-430)
remove_datapoints(dps, start, fraction) ==
    IF dps = <<>> THEN dps
    ELSE LET num_to_remove == IntTimes(Len(dps), Clamp01(fraction))
             start1 == Max(0, Min(start, Len(dps) - 1))
             end == Min(start1 + num_to_remove, Len(dps))
         IN  PyDel(dps, start1, end)

\* slice(self._save_interval_start, len(self.data_points) - 1)
\* (track.py 461, 491)
RunInterval(dps, start) == Some(<<start, Len(dps) - 1>>)

\* mutant: the policy looks at the interval only
CheckpointPolicyActive_interval == checkpoint_interval # None

\* the condition of track.py 486
CheckpointPolicyActive == save_mode = "continuous" /\ checkpoint_interval # None

\* the condition of track.py 489
CheckpointDue(st, force) ==
    \/ st.last_checkpoint = None
    \/ now - st.last_checkpoint[1] > checkpoint_interval[1]
    \/ force

\* track.py 497-505: delete the oldest non-full checkpoint when there are more
\* than max_checkpoint_files of them
PruneCheckpoints(st) ==
    LET chk_files == NonFullCheckpoints(st.files)
    IN  IF Cardinality(chk_files) > max_checkpoint_files
        THEN Remove(st, OldestFile(chk_files))
        ELSE st

\* Track._save_checkpoint(force, specifier) (track.py 476-505)
save_checkpoint(st, force, specifier) ==
    IF CheckpointPolicyActive
    THEN LET st1 == IF CheckpointDue(st, force)
                    THEN save([st EXCEPT !.last_checkpoint = Some(now)],
                              CheckpointFname(now, specifier), "chk",
                              RunInterval(st.data_points, save_interval_start))
                    ELSE st
         IN  PruneCheckpoints(st1)
    ELSE st

\* mutant: the keys only have to be among the schema's
SchemaMismatch_subset(data) ==
    field_names # None /\ ~(DOMAIN data \subseteq field_names[1])

\* the test of track.py 527
SchemaMismatch(data) == field_names # None /\ field_names[1] # DOMAIN data

\* mutant: the rotation starts one sample late
Overflow_late(dps) == Len(dps) > max_datapoints + 1

\* the test of track.py 531
Overflow(dps) == Len(dps) > max_datapoints

\* track.py 530-536: the forced "-full" checkpoint, then the trim
Rotate(st) ==
    LET st1 == save_checkpoint(st, TRUE, Some("-full"))
        n == Len(st1.data_points)
        fraction == [num |-> n - 1, den |-> n]
    IN  [st1 EXCEPT !.data_points = remove_datapoints(st1.data_points, 0, fraction)]

\* a call as its caller sees it: the method, its argument (add_point: the keys
\* of data) or the save_mode it found (start_run, end_run), the exception it
\* raised ("" for none), and what came just before it: "start" for a
\* start_run() that found the recorder on-demand, "pass" for an incremental
\* pass of the index, "failed save" for a save() that wrote no file, "same
\* export" for an export_track of the same arguments, "" for anything else
Called(name, arg, raised) ==
    [name |-> name, arg |-> arg, raised |-> raised,
     after |-> IF last_op.name = "start_run" /\ last_op.arg = "on-demand"
               THEN "start"
               ELSE IF last_op.name = "load_tracks_incrementally"
                    THEN "pass"
                    ELSE IF last_op.name = "save" /\ written = {}
                         THEN "failed save"
                         ELSE IF last_op.name = "export_track" /\ name = "export_track"
                                   /\ last_op.arg = arg
                              THEN "same export" ELSE ""]

\* Track.add_point(timestamp, data) (track.py 507-546); self.preprocessors is
\* empty
AddPoint(timestamp, data) ==
    /\ fed < MaxFed
    /\ fed' = fed + 1
    /\ IF SchemaMismatch(data)
       THEN /\ last_op' = Called("add_point", DOMAIN data, "ValueError")
            /\ written' = {}
            /\ removed' = {}
            /\ UNCHANGED <<track_vars, files>>
       ELSE LET st0 == TrackState
                st1 == IF Overflow(st0.data_points) THEN Rotate(st0) ELSE st0
                datapoint == [timestamp |-> timestamp, input_data |-> data]
                st2 == [st1 EXCEPT !.data_points = Append(st1.data_points, datapoint)]
                st3 == save_checkpoint(st2, FALSE, None)
            IN  /\ data_points' = st3.data_points
                /\ files' = st3.files
                /\ last_checkpoint' = st3.last_checkpoint
                /\ written' = st3.written
                /\ removed' = st3.removed
                /\ last_op' = Called("add_point", DOMAIN data, "")
                /\ UNCHANGED <<field_names, mode, save_mode, checkpoint_interval,
                               max_checkpoint_files, trim_fraction, max_datapoints,
                               replay_index, save_interval_start>>
    /\ UNCHANGED <<db_vars, now>>

\* the test of track.py 440
StartRunApplies == save_mode = "on-demand"

\* Track.start_run() (track.py 432-449)
StartRun ==
    /\ IF StartRunApplies
       THEN /\ save_mode' = "continuous"
            /\ save_interval_start' = Some(Len(data_points) - 1)
            /\ data_points' = IF Len(data_points) - 1 > 0
                              THEN remove_datapoints(data_points, 0, trim_fraction)
                              ELSE data_points
       ELSE UNCHANGED <<save_mode, save_interval_start, data_points>>
    /\ last_op' = Called("start_run", save_mode, "")
    /\ written' = {}
    /\ removed' = {}
    /\ UNCHANGED <<field_names, mode, checkpoint_interval, max_checkpoint_files,
                   trim_fraction, max_datapoints, replay_index, last_checkpoint,
                   db_vars, files, now, fed>>

\* mutant: end_run prunes like _save_checkpoint does, one file at most
CleanupCheckpoints_prune(st) ==
    IF Cardinality(NonFullCheckpoints(st.files)) > max_checkpoint_files
    THEN [st EXCEPT !.files = st.files \ {OldestFile(NonFullCheckpoints(st.files))}]
    ELSE st

\* track.py 463-467: delete every checkpoint that is not a -full one
CleanupCheckpoints(st) ==
    [st EXCEPT !.files = st.files \ NonFullCheckpoints(st.files),
               !.removed = st.removed
                            \cup {PathOf(f) : f \in NonFullCheckpoints(st.files)}]

\* mutant: end_run does not look at the save_mode
EndRunApplies_always == TRUE

\* the test of track.py 459
EndRunApplies == save_mode # "on-demand"

\* Track.end_run() (track.py 451-474)
EndRun ==
    /\ IF EndRunApplies
       THEN LET st1 == save(TrackState, DefaultFname(now), "out",
                            RunInterval(data_points, save_interval_start))
                st2 == CleanupCheckpoints(st1)
            IN  /\ files' = st2.files
                /\ written' = st2.written
                /\ removed' = st2.removed
                /\ save_interval_start' = None
                /\ last_checkpoint' = None
                /\ save_mode' = "on-demand"
       ELSE /\ written' = {}
            /\ removed' = {}
            /\ UNCHANGED <<files, save_interval_start, last_checkpoint, save_mode>>
    /\ last_op' = Called("end_run", save_mode, "")
    /\ UNCHANGED <<data_points, field_names, mode, checkpoint_interval,
                   max_checkpoint_files, trim_fraction, max_datapoints,
                   replay_index, db_vars, now, fed>>

\* Track.save() as its user calls it: file_format "json", the default fname and
\* output_dir, no interval (track.py 361-403)
SaveJson ==
    LET st == save(TrackState, DefaultFname(now), "out", None)
    IN  /\ files' = st.files
        /\ written' = st.written
        /\ removed' = st.removed
        /\ last_op' = Called("save", "json", "")
        /\ UNCHANGED <<track_vars, db_vars, now, fed>>

\* Track.save(file_format) with a format other than the default: the other
\* registered names, a name that is not registered, a callable
OtherFormats == {"csv", "gpx", "xml", Callable}

\* the exception raised inside the try block of save (track.py 396-399)
SaveError(file_format, dps, interval) ==
    IF IsCallable(file_format) THEN "TypeError"
    ELSE IF file_format \notin ExportFormats THEN "UnboundLocalError"
    ELSE ExportMethod(file_format, dps, interval).raised

\* mutant: the handler of save catches the errors of the file system only
IsException_oserror(exc) == exc \in {"OSError", "FileNotFoundError"}

\* `except Exception` (track.py 400): the classes it catches
IsException(exc) ==
    exc \in {"TypeError", "UnboundLocalError", "IndexError", "ValueError",
             "RuntimeError", "KeyError", "OSError", "FileNotFoundError"}

\* what leaves save(): nothing when the handler caught the error
SaveRaised(exc) == IF exc = "" \/ IsException(exc) THEN "" ELSE exc

SaveAs(file_format) ==
    LET st == save_format(TrackState, file_format, DefaultFname(now), "out", None)
    IN  /\ files' = st.files
        /\ written' = st.written
        /\ removed' = st.removed
        /\ last_op' = Called("save", file_format,
                             SaveRaised(SaveError(file_format, data_points, None)))
        /\ UNCHANGED <<track_vars, db_vars, now, fed>>

\* Track.load(filename) on a file that exists (track.py 338-359)
Load(f) ==
    /\ f \in files
    /\ IF f.content.parses
       THEN /\ data_points' = LoadedDataPoints(f.content)
            /\ mode' = "replay"
            /\ last_op' = Called("load", PathOf(f), "")
       ELSE /\ last_op' = Called("load", PathOf(f), "RuntimeError")
            /\ UNCHANGED <<data_points, mode>>
    /\ written' = {}
    /\ removed' = {}
    /\ UNCHANGED <<field_names, save_mode, checkpoint_interval,
                   max_checkpoint_files, trim_fraction, max_datapoints,
                   replay_index, last_checkpoint, save_interval_start,
                   db_vars, files, now, fed>>

\* mutant: the cursor is not limited to the length of the buffer
ReplayAdvance_unbounded(index, dps) == index + 1

\* min(self._replay_index + 1, len(self.data_points)) (track.py 599)
ReplayAdvance(index, dps) == Min(index + 1, Len(dps))

\* Track.get_current() (track.py 567-584) with _get_replay_track (586-607);
\* last_op.arg is the data_points of the Track it returns: the recorder's own
\* in live mode, those of the mock Track in replay mode
GetCurrent ==
    /\ IF mode = "live"
       THEN /\ last_op' = Called("get_current", data_points, "")
            /\ UNCHANGED replay_index
       ELSE IF data_points = <<>>
       THEN /\ last_op' = Called("get_current", <<>>, "ValueError")
            /\ UNCHANGED replay_index
       ELSE /\ replay_index' = ReplayAdvance(replay_index, data_points)
            /\ last_op' = Called("get_current",
                                 PySlice(data_points, None, replay_index'), "")
    /\ written' = {}
    /\ removed' = {}
    /\ UNCHANGED <<data_points, field_names, mode, save_mode, checkpoint_interval,
                   max_checkpoint_files, trim_fraction, max_datapoints,
                   last_checkpoint, save_interval_start, db_vars, files, now, fed>>

\* time passes
Tick ==
    /\ now < MaxTime
    /\ now' = now + 1
    /\ UNCHANGED <<track_vars, db_vars, files, fed, last_op, written, removed>>

-----------------------------------------------------------------------------
(* The recorder fed by its producer *)

\* the key sets the producer sends: the schema's, and one with a key missing
KeySets == {{"a", "b"}, {"a"}}

\* the producer stamps a sample with the current time; its readings are the
\* sample's sequence number
FedTimestamp == [sec |-> now, micro |-> 0]
FedData(keys) == [k \in keys |-> <<"int", fed + 1>>]

\* checkpoints left in output_dir/chk by an earlier session
OldCheckpoints ==
    {[dir |-> "chk", name |-> CheckpointFname(0, None), mtime |-> 0,
      content |-> export_to_json(<<>>, None)],
     [dir |-> "chk", name |-> CheckpointFname(0, Some("-full")), mtime |-> 0,
      content |-> export_to_json(<<>>, None)]}

\* Track.__init__ (track.py 241-301), over the configurations exercised
TrackInit ==
    /\ data_points = <<>>
    /\ field_names \in {None, Some({"a", "b"})}
    /\ mode = "live"
    /\ save_mode \in {"none", "on-demand", "continuous"}
    /\ checkpoint_interval \in {None, Some(1)}
    /\ max_checkpoint_files \in {1}
    /\ trim_fraction \in {[num |-> 0, den |-> 2], [num |-> 1, den |-> 2],
                          [num |-> 2, den |-> 2]}
    /\ max_datapoints \in {0, 1, 2}
    /\ replay_index = 0
    /\ last_checkpoint = None
    /\ save_interval_start = None

Init ==
    /\ TrackInit
    /\ db = <<>>
    /\ validation = TRUE
    /\ exporting = NoExport
    /\ files \in {{}, OldCheckpoints}
    /\ now = 1
    /\ fed = 0
    /\ last_op = [name |-> "init", arg |-> "", raised |-> "", after |-> ""]
    /\ written = {}
    /\ removed = {}

Next ==
    \/ \E keys \in KeySets : AddPoint(FedTimestamp, FedData(keys))
    \/ StartRun
    \/ EndRun
    \/ Tick

Spec == Init /\ [][Next]_vars

-----------------------------------------------------------------------------
(* A recorder with the constructor's defaults, fed samples of every scalar   *)
(* type, saved and loaded back                                               *)

DefaultCheckpointInterval == 120
DefaultMaxCheckpointFiles == 3
DefaultMaxDatapoints == 100000

\* Track() (track.py 241-301)
DefaultTrackInit ==
    /\ data_points = <<>>
    /\ field_names = None
    /\ mode = "live"
    /\ save_mode = "continuous"
    /\ checkpoint_interval = Some(DefaultCheckpointInterval)
    /\ max_checkpoint_files = DefaultMaxCheckpointFiles
    /\ trim_fraction = [num |-> 1, den |-> 2]
    /\ max_datapoints = DefaultMaxDatapoints
    /\ replay_index = 0
    /\ last_checkpoint = None
    /\ save_interval_start = None

\* timestamps on the second and off it
ScalarTimestamps == {[sec |-> 1, micro |-> 0], [sec |-> 1, micro |-> 5]}

\* readings of every scalar type: {"a": 1, "b": 1.0, "c": "1"} and
\* {"a": True, "b": None, "c": False}
ScalarData ==
    {[k \in {"a", "b", "c"} |->
        CASE k = "a" -> <<"int", 1>> [] k = "b" -> <<"float", 1>>
          [] k = "c" -> <<"str", "1">>],
     [k \in {"a", "b", "c"} |->
        CASE k = "a" -> <<"bool", TRUE>> [] k = "b" -> <<"None">>
          [] k = "c" -> <<"bool", FALSE>>]}

InitRT ==
    /\ DefaultTrackInit
    /\ db = <<>>
    /\ validation = TRUE
    /\ exporting = NoExport
    /\ files = {}
    /\ now = 1
    /\ fed = 0
    /\ last_op = [name |-> "init", arg |-> "", raised |-> "", after |-> ""]
    /\ written = {}
    /\ removed = {}

NextRT ==
    \/ \E t \in ScalarTimestamps, d \in ScalarData : AddPoint(t, d)
    \/ SaveJson
    \/ \E f \in files : Load(f)
    \/ GetCurrent

SpecRT == InitRT /\ [][NextRT]_vars

-----------------------------------------------------------------------------
(* The default recorder saved in other formats: its producer feeds samples  *)
(* of one key or two, so that a later sample may have a key the first lacks *)

NextSV ==
    \/ \E keys \in KeySets : AddPoint(FedTimestamp, FedData(keys))
    \/ \E file_format \in OtherFormats : SaveAs(file_format)
    \/ Tick

SpecSV == InitRT /\ [][NextSV]_vars

-----------------------------------------------------------------------------
(* The default recorder fed positions and saved as gpx *)

\* the samples of a producer with a GPS: a position; a latitude alone; a
\* latitude of None; no position at all; and two longitude keys of which the
\* first holds None
GpsData ==
    {[k \in {"lat", "lon"} |-> IF k = "lat" THEN <<"int", 1>> ELSE <<"int", 2>>],
     [k \in {"lat"} |-> <<"int", 1>>],
     [k \in {"lat", "lon"} |-> IF k = "lat" THEN <<"None">> ELSE <<"int", 2>>],
     [k \in {"a"} |-> <<"int", 1>>],
     [k \in {"lat", "lon", "long"} |->
        CASE k = "lat" -> <<"int", 1>> [] k = "lon" -> <<"None">>
          [] k = "long" -> <<"int", 3>>]}

NextGX ==
    \/ \E data \in GpsData : AddPoint(FedTimestamp, data)
    \/ SaveAs("gpx")
    \/ Tick

SpecGX == InitRT /\ [][NextGX]_vars

-----------------------------------------------------------------------------
(* MetadataExtractor and Database (database.py).  A TinyDB document is a     *)
(* function from its keys; self.db is the sequence of documents, in          *)
(* insertion order, that db.all() returns.                                   *)

\* sequences that enumerate a set: the orders a glob may list a directory in
RECURSIVE SeqsOf(_)
SeqsOf(S) ==
    IF S = {} THEN {<<>>}
    ELSE UNION {{<<x>> \o rest : rest \in SeqsOf(S \ {x})} : x \in S}

\* dict.get(key): None when the key is absent
Get(d, key) == IF key \in DOMAIN d THEN Some(d[key]) ELSE None

\* self.db_fname, "tracks_metadata.json" (database.py 274, 291)
DbFname == FileName(0, "tracks_metadata", FALSE, "json")

\* self.export_methods.keys() (track.py 226, database.py 365, 417)
ExportExtensions == <<"json", "csv", "gpx">>

\* sorted(...) of a list of export extensions (database.py 435)
SortedExtensions == <<"csv", "gpx", "json">>

\* Path.stem: the name without its last extension
Stem(name) == [ts |-> name.ts, tag |-> name.tag, chk |-> name.chk]

\* fname.replace(".chk.json", "").replace(".json", "") (database.py 394) and
\* fname.stem.replace(".chk", "") (database.py 433)
BaseName(name) == [ts |-> name.ts, tag |-> name.tag, chk |-> FALSE]

\* mutant: no derivative file is discovered
ExistingExports_none(fs, base, order) == <<>>

\* database.py 367-372, 418-422: existing_exports[base], the extensions ext, in
\* the order of `order`, for which directory holds a file "<base>.<ext>"
ExistingExports(fs, base, order) ==
    LET Has(ext) == \E f \in fs : /\ f.dir = "out" /\ f.name.ext = ext
                                  /\ Stem(f.name) = base
    IN  SelectSeq(order, Has)

\* TRACK_SCHEMA (database.py 48-64): additionalProperties of input_data
IsJsonScalar(j) == j[1] \in {"number", "string", "literal"}

\* open(filepath, "r") and json.load(f) read the file as text: content that
\* carries decodes = FALSE is bytes that the default encoding cannot decode,
\* and reading it raises UnicodeDecodeError (database.py 326-327)
Decodes(content) ==
    IF "decodes" \in DOMAIN content THEN content.decodes ELSE TRUE

\* what validate_json lets through: it catches json.JSONDecodeError and
\* ValidationError only (database.py 330)
ValidateRaised(f) == IF Decodes(f.content) THEN "" ELSE "UnicodeDecodeError"

\* Database.validate_json(filepath) on a file that exists and that it can
\* read (database.py 315-332)
validate_json(f) ==
    /\ f.content.parses
    /\ \A i \in 1..Len(f.content.doc) :
          /\ f.content.doc[i].timestamp[1] = "string"
          /\ \A k \in DOMAIN f.content.doc[i].input_data :
                IsJsonScalar(f.content.doc[i].input_data[k])

\* key.split("/")[0]; the keys of this model hold no "/"
RemoteUnit(key) == key

\* MetadataExtractor.extract_track_datetime (database.py 90-114): every file
\* name of this model starts with a <YYYYMMDD-HHMMSS> stamp
extract_track_datetime(name, doc) == [track_datetime |-> Some(name.ts)]

\* MetadataExtractor.extract_track_duration (database.py 195-228)
extract_track_duration(name, doc) ==
    [track_duration |->
        IF doc = <<>> THEN None
        ELSE LET start_ts == FromIsoFormat(doc[1].timestamp[2])
                 end_ts == FromIsoFormat(doc[Len(doc)].timestamp[2])
             IN  Some(<<end_ts.sec - start_ts.sec, end_ts.micro - start_ts.micro>>)]

\* MetadataExtractor.extract_datapoint_count (database.py 116-133)
extract_datapoint_count(name, doc) == [datapoint_count |-> Len(doc)]

\* MetadataExtractor.extract_remote_units (database.py 135-162)
extract_remote_units(name, doc) ==
    [remote_units |->
        IF doc = <<>> THEN {}
        ELSE {RemoteUnit(k) : k \in DOMAIN doc[1].input_data}]

\* MetadataExtractor.extract_additional_metadata (database.py 164-193): no key
\* at all for an empty list
extract_additional_metadata(name, doc) ==
    IF doc = <<>> THEN <<>>
    ELSE [common_datapoint_keys |->
            {k \in DOMAIN doc[1].input_data :
                \A i \in 1..Len(doc) : k \in DOMAIN doc[i].input_data}]

\* MetadataExtractor.extract_all(filepath) (database.py 230-261); a later
\* extractor's keys replace an earlier one's
extract_all(f) ==
    IF ~f.content.parses THEN [filename |-> f.name]
    ELSE extract_additional_metadata(f.name, f.content.doc)
         @@ extract_remote_units(f.name, f.content.doc)
         @@ extract_datapoint_count(f.name, f.content.doc)
         @@ extract_track_duration(f.name, f.content.doc)
         @@ extract_track_datetime(f.name, f.content.doc)
         @@ [filename |-> f.name]

\* dict.update: the keys of new replace those of doc, the others stay
DictUpdate(doc, new) == new @@ doc

\* db.insert(meta)
DbInsert(d, meta) == Append(d, meta)

\* db.update(meta, Track.filename == fname)
DbUpdate(d, meta, fname) ==
    [i \in 1..Len(d) |-> IF d[i].filename = fname THEN DictUpdate(d[i], meta) ELSE d[i]]

\* db.remove(Track.filename == fname)
DbRemove(d, fname) ==
    LET Keep(doc) == doc.filename # fname
    IN  SelectSeq(d, Keep)

\* {t["filename"]: t for t in self.db.all()}.get(fname): the last document of
\* that filename (database.py 341, 376)
RECURSIVE ExistingTrack(_, _)
ExistingTrack(d, fname) ==
    IF d = <<>> THEN None
    ELSE IF d[Len(d)].filename = fname THEN Some(d[Len(d)])
    ELSE ExistingTrack(SubSeq(d, 1, Len(d) - 1), fname)

\* directory.glob("*.json") without the store's own file (database.py 345-347,
\* 443-445), and checkpoint_directory.glob("*.chk.json") (database.py 352, 451)
PrimaryJson(fs) ==
    {f \in fs : f.dir = "out" /\ f.name.ext = "json" /\ f.name # DbFname}
CheckpointJson(fs) ==
    {f \in fs : f.dir = "chk" /\ f.name.ext = "json" /\ f.name.chk}

\* database.py 344-353: found_files as the sequence of its items; a name found
\* in both directories keeps its place and takes the checkpoint's mtime
FoundFiles(primary, checkpoints) ==
    LET InChk(name) == \E i \in 1..Len(checkpoints) : checkpoints[i].name = name
        ChkOf(name) == CHOOSE f \in {checkpoints[i] : i \in 1..Len(checkpoints)} :
                          f.name = name
        InPrimary(f) == \E i \in 1..Len(primary) : primary[i].name = f.name
        NotInPrimary(f) == ~InPrimary(f)
        Item(f) == [name |-> f.name,
                    mtime |-> IF InChk(f.name) THEN ChkOf(f.name).mtime ELSE f.mtime]
        all == primary \o SelectSeq(checkpoints, NotInPrimary)
    IN  [i \in 1..Len(all) |-> Item(all[i])]

\* mutant: the time of the pass is recorded, not the file's
RecordedMtime_now(mtime) == now

\* meta["mtime"] = mtime (database.py 391)
RecordedMtime(mtime) == mtime

\* mutant: a file that has no document is not taken for new
IsDirty_modified(db_track, mtime) ==
    db_track # None /\ Get(db_track[1], "mtime") # Some(mtime)

\* mutant: every file found is taken for modified
IsDirty_always(db_track, mtime) == TRUE

\* the test of database.py 378
IsDirty(db_track, mtime) ==
    db_track = None \/ Get(db_track[1], "mtime") # Some(mtime)

\* database.py 380-384: the path the pass looks for the file at
GuessedPath(fname) == Path(IF fname.chk THEN "chk" ELSE "out", fname)

\* database.py 387-396: the metadata of a file found new or modified
IncrementalMeta(f, fname, mtime) ==
    LET exports == ExistingExports(files, BaseName(fname), ExportExtensions)
    IN  (IF exports # <<>> THEN [exports |-> exports] ELSE <<>>)
        @@ [checkpoint |-> fname.chk, filename |-> fname,
            filepath |-> PathOf(f), mtime |-> RecordedMtime(mtime)]
        @@ extract_all(f)

\* database.py 398-402
Upsert(d, meta, db_track) ==
    IF db_track # None THEN DbUpdate(d, meta, meta.filename) ELSE DbInsert(d, meta)

\* mutant: the documents of deleted files are left in the store
MissingFiles_none(d, found) == {}

\* database.py 357-358: the filenames of the store that were not found
MissingFiles(d, found) ==
    {d[i].filename : i \in 1..Len(d)} \ {found[i].name : i \in 1..Len(found)}

\* database.py 357-362
RemoveMissing(d, found) ==
    LET missing == MissingFiles(d, found)
        Keep(doc) == doc.filename \notin missing
    IN  SelectSeq(d, Keep)

\* database.py 375-403: the loop over found_files from its i-th item, on the
\* store d; existing is the store as the pass found it.  validate_json opens
\* the guessed path and lets FileNotFoundError through
RECURSIVE ProcessFound(_, _, _, _)
ProcessFound(d, existing, found, i) ==
    IF i > Len(found) THEN [db |-> d, raised |-> ""]
    ELSE LET fname == found[i].name
             mtime == found[i].mtime
             db_track == ExistingTrack(existing, fname)
         IN  IF ~IsDirty(db_track, mtime)
             THEN ProcessFound(d, existing, found, i + 1)
             ELSE IF ~Exists(files, GuessedPath(fname))
             THEN [db |-> d, raised |-> "FileNotFoundError"]
             ELSE LET f == FileAt(files, GuessedPath(fname))
                  IN  IF ValidateRaised(f) # ""
                      THEN [db |-> d, raised |-> ValidateRaised(f)]
                      ELSE IF validate_json(f) \/ ~validation
                      THEN ProcessFound(
                               Upsert(d, IncrementalMeta(f, fname, mtime), db_track),
                               existing, found, i + 1)
                      ELSE ProcessFound(d, existing, found, i + 1)

\* Database.load_tracks_incrementally() (database.py 334-406); last_op.arg is
\* the set of filenames it reports as removed
IncSync ==
    \E primary \in SeqsOf(PrimaryJson(files)),
       checkpoints \in SeqsOf(CheckpointJson(files)) :
        LET found == FoundFiles(primary, checkpoints)
            result == ProcessFound(RemoveMissing(db, found), db, found, 1)
        IN  /\ db' = result.db
            /\ last_op' = Called("load_tracks_incrementally",
                                 MissingFiles(db, found), result.raised)
            /\ written' = {}
            /\ removed' = {}
            /\ UNCHANGED <<track_vars, validation, exporting, files, now, fed>>

\* load_tracks.process_file(fname, is_checkpoint) (database.py 424-440)
process_file(d, f, is_checkpoint) ==
    IF validate_json(f) \/ ~validation
    THEN LET exports == ExistingExports(files, BaseName(f.name), SortedExtensions)
         IN  DbInsert(d, (IF exports # <<>> THEN [exports |-> exports] ELSE <<>>)
                         @@ [checkpoint |-> is_checkpoint, filepath |-> PathOf(f),
                             filename |-> f.name]
                         @@ extract_all(f))
    ELSE d

\* the two loops of load_tracks over the files fs from the i-th, on the store
\* d (database.py 443-452); an exception of validate_json ends them
RECURSIVE ProcessFiles(_, _, _)
ProcessFiles(d, fs, i) ==
    IF i > Len(fs) THEN [db |-> d, raised |-> ""]
    ELSE IF ValidateRaised(fs[i]) # ""
    THEN [db |-> d, raised |-> ValidateRaised(fs[i])]
    ELSE ProcessFiles(process_file(d, fs[i], fs[i].dir = "chk" \/ fs[i].name.chk),
                      fs, i + 1)

\* Database.load_tracks() (database.py 408-452): the store it leaves, empty
\* before the loops (413), and the exception it lets through
LoadTracks(primary, checkpoints) ==
    ProcessFiles(<<>>, primary \o checkpoints, 1).db
LoadTracksRaised(primary, checkpoints) ==
    ProcessFiles(<<>>, primary \o checkpoints, 1).raised

FullSync ==
    \E primary \in SeqsOf(PrimaryJson(files)),
       checkpoints \in SeqsOf(CheckpointJson(files)) :
        /\ db' = LoadTracks(primary, checkpoints)
        /\ last_op' = Called("load_tracks", "", LoadTracksRaised(primary, checkpoints))
        /\ written' = {}
        /\ removed' = {}
        /\ UNCHANGED <<track_vars, validation, exporting, files, now, fed>>

\* track_id: <<"int", i>> for a position of db.all(), from 0, or
\* <<"str", filename>>; the document it names, None when there is none
\* (database.py 586-592, 527-541)
LookupTrack(d, track_id) ==
    IF track_id[1] = "int"
    THEN IF 0 <= track_id[2] /\ track_id[2] < Len(d) THEN Some(d[track_id[2] + 1])
         ELSE None
    ELSE LET hits == {i \in 1..Len(d) : d[i].filename = track_id[2]}
         IN  IF hits = {} THEN None
             ELSE Some(d[CHOOSE i \in hits : \A j \in hits : i <= j])

\* mutant: the checkpoint flag of the document is not looked at
get_track_path_primary(d, fs, track_id) ==
    LET track == LookupTrack(d, track_id)
    IN  IF track = None THEN None
        ELSE IF Exists(fs, Path("out", track[1].filename))
             THEN Some(Path("out", track[1].filename))
             ELSE None

\* Database.get_track_path(track_id) (database.py 513-557)
get_track_path(d, fs, track_id) ==
    LET track == LookupTrack(d, track_id)
    IN  IF track = None THEN None
        ELSE LET filename == track[1].filename
                 is_chk == IF "checkpoint" \in DOMAIN track[1]
                           THEN track[1].checkpoint ELSE FALSE
             IN  IF is_chk /\ Exists(fs, Path("chk", filename))
                 THEN Some(Path("chk", filename))
                 ELSE IF Exists(fs, Path("out", filename))
                      THEN Some(Path("out", filename))
                      ELSE None

\* a call of get_track_path: last_op.arg is the identifier and what the call
\* returned, None or the path
GetTrackPath(track_id) ==
    /\ last_op' = Called("get_track_path",
                         <<track_id, get_track_path(db, files, track_id)>>, "")
    /\ written' = {}
    /\ removed' = {}
    /\ UNCHANGED <<track_vars, db_vars, files, now, fed>>

\* directory / f"{base_name}.{export_format}" with base_name the filename
\* without its last extension (database.py 599-601)
ExportPath(filename, export_format) ==
    Path("out", [filename EXCEPT !.ext = export_format])

\* mutant: the derivative is never found on the disk
ExportExists_never(fs, path) == FALSE

\* export_path.exists() (database.py 604)
ExportExists(fs, path) == Exists(fs, path)

\* the temporary Track of export_track, loaded from the file at path
\* (database.py 613-617)
TempTrack(fs, path) ==
    [data_points |-> LoadedDataPoints(FileAt(fs, path).content), files |-> fs,
     last_checkpoint |-> None, written |-> {}, removed |-> {}]

\* export_track up to its updating the store: the files it leaves and
\* whether it returned early with a message (database.py 586-626)
Exported(d, fs, track_id, export_format) ==
    LET track == LookupTrack(d, track_id)
        export_path == ExportPath(track[1].filename, export_format)
        track_path == get_track_path(d, fs, track_id)
    IN  IF track = None THEN [files |-> fs, written |-> {}, msg |-> TRUE]
        ELSE IF ExportExists(fs, export_path)
        THEN [files |-> fs, written |-> {}, msg |-> FALSE]
        ELSE IF track_path = None THEN [files |-> fs, written |-> {}, msg |-> TRUE]
        ELSE IF ~FileAt(fs, track_path[1]).content.parses
        THEN [files |-> fs, written |-> {}, msg |-> TRUE]
        ELSE LET st == save_format(TempTrack(fs, track_path[1]), export_format,
                                   track[1].filename, "out", None)
             IN  [files |-> st.files, written |-> st.written, msg |-> FALSE]

\* Database.export_track(track_id, export_format) (database.py 572-631);
\* list(exports) lists the set in any order
ExportTrack(track_id, export_format) ==
    LET track == LookupTrack(db, track_id)
        res == Exported(db, files, track_id, export_format)
        old == IF "exports" \in DOMAIN track[1]
               THEN {track[1].exports[i] : i \in 1..Len(track[1].exports)} ELSE {}
    IN  /\ files' = res.files
        /\ written' = res.written
        /\ removed' = {}
        /\ last_op' = Called("export_track", <<track_id, export_format>>, "")
        /\ IF res.msg THEN db' = db
           ELSE \E exports \in SeqsOf(old \cup {export_format}) :
                    db' = DbUpdate(db, [exports |-> exports], track[1].filename)
        /\ UNCHANGED <<track_vars, validation, exporting, now, fed>>

\* mutant: an identifier that names no file is passed over in silence
remove_track_silent(d, fs, track_id, delete_from_disk, os_fails) ==
    LET track_path == get_track_path(d, fs, track_id)
    IN  IF track_path = None
        THEN [db |-> d, files |-> fs, raised |-> "", removed |-> {}]
        ELSE [db |-> DbRemove(d, track_path[1].name),
              files |-> IF delete_from_disk /\ ~os_fails
                        THEN fs \ {FileAt(fs, track_path[1])} ELSE fs,
              raised |-> IF delete_from_disk /\ os_fails THEN "TypeError" ELSE "",
              removed |-> IF delete_from_disk /\ ~os_fails
                          THEN {track_path[1]} ELSE {}]

\* mutant: the file is deleted first, and the store is left alone when that
\* fails
remove_track_disk_first(d, fs, track_id, delete_from_disk, os_fails) ==
    LET track_path == get_track_path(d, fs, track_id)
    IN  IF track_path = None
        THEN [db |-> d, files |-> fs, raised |-> "RuntimeError", removed |-> {}]
        ELSE IF delete_from_disk /\ os_fails
        THEN [db |-> d, files |-> fs, raised |-> "TypeError", removed |-> {}]
        ELSE [db |-> DbRemove(d, track_path[1].name),
              files |-> IF delete_from_disk
                        THEN fs \ {FileAt(fs, track_path[1])} ELSE fs,
              raised |-> "",
              removed |-> IF delete_from_disk THEN {track_path[1]} ELSE {}]

\* Database.remove_track(track_id, delete_from_disk) (database.py 633-672):
\* the store and the files it leaves, the exception it raises, the paths it
\* deleted.  os_fails: os.remove raises OSError and leaves the file.  The
\* handler `except [Exception, OSError]` names a list, not a class or a
\* tuple: matching the OSError against it raises TypeError, which is what
\* the caller gets (668)
remove_track(d, fs, track_id, delete_from_disk, os_fails) ==
    LET track_path == get_track_path(d, fs, track_id)
    IN  IF track_path = None
        THEN [db |-> d, files |-> fs, raised |-> "RuntimeError", removed |-> {}]
        ELSE LET after == DbRemove(d, track_path[1].name)
                 removal_count == Len(d) - Len(after)
             IN  IF removal_count = 0
                 THEN [db |-> after, files |-> fs, raised |-> "RuntimeError",
                       removed |-> {}]
                 ELSE IF ~delete_from_disk
                 THEN [db |-> after, files |-> fs, raised |-> "", removed |-> {}]
                 ELSE IF os_fails
                 THEN [db |-> after, files |-> fs, raised |-> "TypeError",
                       removed |-> {}]
                 ELSE [db |-> after, files |-> fs \ {FileAt(fs, track_path[1])},
                       raised |-> "", removed |-> {track_path[1]}]

\* a call of remove_track; last_op.arg is the identifier and delete_from_disk
RemoveTrack(track_id, delete_from_disk, os_fails) ==
    LET res == remove_track(db, files, track_id, delete_from_disk, os_fails)
    IN  /\ db' = res.db
        /\ files' = res.files
        /\ removed' = res.removed
        /\ written' = {}
        /\ last_op' = Called("remove_track", <<track_id, delete_from_disk>>,
                             res.raised)
        /\ UNCHANGED <<track_vars, validation, exporting, now, fed>>

-----------------------------------------------------------------------------
(* The index beside a directory that changes under it *)

\* the recorded files that come and go: a final export, the checkpoint of the
\* same second, and the export's csv derivative
TrackPaths ==
    {Path("out", DefaultFname(1)), Path("chk", CheckpointFname(1, None))}
DerivativePaths == {Path("out", FileName(1, "", FALSE, "csv"))}

\* what a recorded file may hold: two samples, no sample, or no JSON at all
TwoSamples ==
    export_to_json(<<[timestamp |-> [sec |-> 1, micro |-> 0],
                      input_data |-> [a |-> <<"int", 1>>, b |-> <<"int", 1>>]],
                     [timestamp |-> [sec |-> 2, micro |-> 0],
                      input_data |-> [a |-> <<"int", 2>>]]>>, None)
NoSample == export_to_json(<<>>, None)
NotJson == [parses |-> FALSE, doc |-> <<>>]
TrackContents == {TwoSamples, NoSample, NotJson}

\* the directory changed under the index: no call of the program
FsChange == [name |-> "fs", arg |-> "", raised |-> "", after |-> ""]

\* a file is written, new or over the one of the same path, with the
\* modification time t
FsWrite(path, content, t) ==
    /\ files' = WriteFile(files, path.dir, path.name, t, content)
    /\ last_op' = FsChange
    /\ written' = {}
    /\ removed' = {}
    /\ UNCHANGED <<track_vars, db_vars, now, fed>>

\* a file is deleted
FsRemove(f) ==
    /\ f \in files
    /\ f.name # DbFname
    /\ files' = files \ {f}
    /\ last_op' = FsChange
    /\ written' = {}
    /\ removed' = {}
    /\ UNCHANGED <<track_vars, db_vars, now, fed>>

DbFile == [dir |-> "out", name |-> DbFname, mtime |-> 0, content |-> NotJson]

\* the directory as an earlier session left it
OldFiles ==
    {[dir |-> "out", name |-> DefaultFname(1), mtime |-> 0, content |-> TwoSamples],
     [dir |-> "out", name |-> FileName(1, "", FALSE, "csv"), mtime |-> 0,
      content |-> NotJson]}

\* Database.__init__ (database.py 274-313): it ends with load_tracks()
InitDB ==
    /\ DefaultTrackInit
    /\ validation \in BOOLEAN
    /\ exporting = NoExport
    /\ files \in {{DbFile}, {DbFile} \cup OldFiles}
    /\ \E primary \in SeqsOf(PrimaryJson(files)),
          checkpoints \in SeqsOf(CheckpointJson(files)) :
            db = LoadTracks(primary, checkpoints)
    /\ now = 1
    /\ fed = 0
    /\ last_op = [name |-> "init", arg |-> "", raised |-> "", after |-> ""]
    /\ written = {}
    /\ removed = {}

NextDB ==
    \/ IncSync
    \/ FullSync
    \/ \E path \in TrackPaths, content \in TrackContents : FsWrite(path, content, now)
    \/ \E path \in DerivativePaths : FsWrite(path, NotJson, 0)
    \/ \E f \in files : FsRemove(f)
    \/ Tick

SpecDB == InitDB /\ [][NextDB]_vars

-----------------------------------------------------------------------------
(* The index asked for derivatives of the tracks it holds *)

\* the identifiers export_track is called with: the first two positions, the
\* second out of range when there is one document, and a filename
TrackIds == {<<"int", 0>>, <<"int", 1>>, <<"str", DefaultFname(1)>>}

\* the format export_track is asked for
AskedFormats == {"csv"}

\* the identifiers get_track_path is called with: those, and a position
\* below zero
PathIds == TrackIds \cup {<<"int", -1>>}

\* a directory with a final export and, or not, the checkpoint of the same
\* second
InitEX ==
    /\ DefaultTrackInit
    /\ validation \in BOOLEAN
    /\ exporting = NoExport
    /\ \E content \in TrackContents, chk \in BOOLEAN :
          files = {DbFile,
                   [dir |-> "out", name |-> DefaultFname(1), mtime |-> 0,
                    content |-> content]}
                  \cup (IF chk
                        THEN {[dir |-> "chk", name |-> CheckpointFname(1, None),
                               mtime |-> 0, content |-> TwoSamples]}
                        ELSE {})
    /\ \E primary \in SeqsOf(PrimaryJson(files)),
          checkpoints \in SeqsOf(CheckpointJson(files)) :
            db = LoadTracks(primary, checkpoints)
    /\ now = 1
    /\ fed = 0
    /\ last_op = [name |-> "init", arg |-> "", raised |-> "", after |-> ""]
    /\ written = {}
    /\ removed = {}

NextEX ==
    \/ \E track_id \in TrackIds, export_format \in AskedFormats :
          ExportTrack(track_id, export_format)
    \/ \E track_id \in PathIds : GetTrackPath(track_id)
    \/ \E f \in files : FsRemove(f)
    \/ Tick

SpecEX == InitEX /\ [][NextEX]_vars

-----------------------------------------------------------------------------
(* The index asked for the same derivative by two callers at once.  A call   *)
(* of export_track is three steps, each between two accesses to the store or *)
(* to the directory that another call may come between: database.py has no  *)
(* lock.                                                                    *)

\* the identifiers the two callers ask with
CallIds == {<<"int", 0>>, <<"str", DefaultFname(1)>>}

\* export_track up to the test of line 604 (database.py 585-606)
BeginExport(c, track_id, export_format) ==
    LET track == LookupTrack(db, track_id)
        call == [pc |-> "export", track_id |-> track_id,
                 export_format |-> export_format, track |-> track,
                 wrote |-> FALSE]
    IN  /\ exporting[c].pc \in {"idle", "returned"}
        /\ IF track = None
           THEN /\ exporting' = [exporting EXCEPT ![c] = [call EXCEPT !.pc = "returned"]]
                /\ last_op' = Called("export_track", <<track_id, export_format>>, "")
           ELSE /\ exporting' =
                     [exporting EXCEPT ![c] =
                        IF ExportExists(files, ExportPath(track[1].filename,
                                                          export_format))
                        THEN [call EXCEPT !.pc = "update"] ELSE call]
                /\ UNCHANGED last_op
        /\ written' = {}
        /\ removed' = {}
        /\ UNCHANGED <<track_vars, db, validation, files, now, fed>>

\* the else branch of line 606: the track file is looked for and loaded into
\* a temporary Track, which saves it in the format (database.py 607-626)
ExportFile(c) ==
    LET call == exporting[c]
        track_path == get_track_path(db, files, call.track_id)
        loads == track_path # None /\ FileAt(files, track_path[1]).content.parses
        st == save_format(TempTrack(files, track_path[1]), call.export_format,
                          call.track[1].filename, "out", None)
    IN  /\ call.pc = "export"
        /\ IF loads
           THEN /\ files' = st.files
                /\ written' = st.written
                /\ exporting' = [exporting EXCEPT ![c].pc = "update",
                                                  ![c].wrote = st.written # {}]
                /\ UNCHANGED last_op
           ELSE /\ exporting' = [exporting EXCEPT ![c].pc = "returned"]
                /\ last_op' = Called("export_track",
                                     <<call.track_id, call.export_format>>, "")
                /\ written' = {}
                /\ UNCHANGED files
        /\ removed' = {}
        /\ UNCHANGED <<track_vars, db, validation, now, fed>>

\* the format is added to the exports of the document the call read at its
\* start, and the store is updated (database.py 628-631)
UpdateExports(c) ==
    LET call == exporting[c]
        old == IF "exports" \in DOMAIN call.track[1]
               THEN {call.track[1].exports[i] : i \in 1..Len(call.track[1].exports)}
               ELSE {}
    IN  /\ call.pc = "update"
        /\ \E exports \in SeqsOf(old \cup {call.export_format}) :
              db' = DbUpdate(db, [exports |-> exports], call.track[1].filename)
        /\ exporting' = [exporting EXCEPT ![c].pc = "returned"]
        /\ last_op' = Called("export_track", <<call.track_id, call.export_format>>, "")
        /\ written' = {}
        /\ removed' = {}
        /\ UNCHANGED <<track_vars, validation, files, now, fed>>

NextCX ==
    \/ \E c \in Callers, track_id \in CallIds, export_format \in AskedFormats :
          BeginExport(c, track_id, export_format)
    \/ \E c \in Callers : ExportFile(c)
    \/ \E c \in Callers : UpdateExports(c)
    \/ Tick

SpecCX == InitEX /\ [][NextCX]_vars

-----------------------------------------------------------------------------
(* The index asked to remove tracks, and rebuilt *)

\* os.remove may fail, and leave the file, only when it is called
NextRM ==
    \/ \E track_id \in TrackIds, delete_from_disk \in BOOLEAN :
          RemoveTrack(track_id, delete_from_disk, FALSE)
    \/ \E track_id \in TrackIds :
          /\ get_track_path(db, files, track_id) # None
          /\ RemoveTrack(track_id, TRUE, TRUE)
    \/ FullSync
    \/ \E f \in files : FsRemove(f)
    \/ Tick

SpecRM == InitEX /\ [][NextRM]_vars

-----------------------------------------------------------------------------
(* The index beside files that fail validation *)

\* JSON that parses and violates TRACK_SCHEMA: a value of input_data is a list
BadSchema ==
    [parses |-> TRUE,
     doc |-> <<[timestamp |-> <<"string", DatetimeStr([sec |-> 1, micro |-> 0])>>,
                input_data |-> [a |-> <<"array", <<>>>>]]>>]

\* bytes that are no text in the default encoding
NotText == [parses |-> FALSE, doc |-> <<>>, decodes |-> FALSE]

\* what a file of the directories may hold
ValidatedContents == {TwoSamples, BadSchema, NotJson, NotText}

\* a new Database on a directory with no track
InitVL ==
    /\ DefaultTrackInit
    /\ validation \in BOOLEAN
    /\ exporting = NoExport
    /\ files = {DbFile}
    /\ db = LoadTracks(<<>>, <<>>)
    /\ now = 1
    /\ fed = 0
    /\ last_op = [name |-> "init", arg |-> "", raised |-> "", after |-> ""]
    /\ written = {}
    /\ removed = {}

NextVL ==
    \/ IncSync
    \/ FullSync
    \/ \E path \in TrackPaths, content \in ValidatedContents :
          FsWrite(path, content, now)
    \/ Tick

SpecVL == InitVL /\ [][NextVL]_vars

-----------------------------------------------------------------------------
(* The index under its four operations, one call at a time, beside a        *)
(* directory that holds a final export and a checkpoint file placed in the  *)
(* primary directory, in the checkpoint directory, in both or in neither    *)

\* the identifiers the calls are made with: the first two positions and the
\* two filenames
IndexIds == TrackIds \cup {<<"str", CheckpointFname(1, None)>>}

\* the places a file named <stamp>.chk.json may be in
Placements == SUBSET {"out", "chk"}

\* Database.__init__ (database.py 274-313) on such a directory
InitIX ==
    /\ DefaultTrackInit
    /\ validation \in BOOLEAN
    /\ exporting = NoExport
    /\ \E content \in {TwoSamples, NotJson}, dirs \in Placements :
          files = {DbFile,
                   [dir |-> "out", name |-> DefaultFname(1), mtime |-> 0,
                    content |-> content]}
                  \cup {[dir |-> dir, name |-> CheckpointFname(1, None),
                         mtime |-> 0, content |-> TwoSamples] : dir \in dirs}
    /\ \E primary \in SeqsOf(PrimaryJson(files)),
          checkpoints \in SeqsOf(CheckpointJson(files)) :
            db = LoadTracks(primary, checkpoints)
    /\ now = 1
    /\ fed = 0
    /\ last_op = [name |-> "init", arg |-> "", raised |-> "", after |-> ""]
    /\ written = {}
    /\ removed = {}

NextIX ==
    \/ IncSync
    \/ FullSync
    \/ \E track_id \in IndexIds, export_format \in AskedFormats :
          ExportTrack(track_id, export_format)
    \/ \E track_id \in IndexIds, delete_from_disk \in BOOLEAN :
          RemoveTrack(track_id, delete_from_disk, FALSE)

SpecIX == InitIX /\ [][NextIX]_vars

-----------------------------------------------------------------------------
(* The recorder on a disk that may refuse a write.  io_fails: every open()   *)
(* for writing made by the call raises OSError, which the handler of save   *)
(* catches and logs (track.py 119, 400-403)                                 *)

\* Track.save(...) as json when the file may not be opened
save_io(st, fname, output_dir, interval, io_fails) ==
    IF io_fails THEN st ELSE save(st, fname, output_dir, interval)

\* Track._save_checkpoint(force, specifier) (track.py 476-505):
\* _last_checkpoint is assigned before save is called (490, 495)
save_checkpoint_io(st, force, specifier, io_fails) ==
    IF CheckpointPolicyActive
    THEN LET st1 == IF CheckpointDue(st, force)
                    THEN save_io([st EXCEPT !.last_checkpoint = Some(now)],
                                 CheckpointFname(now, specifier), "chk",
                                 RunInterval(st.data_points, save_interval_start),
                                 io_fails)
                    ELSE st
         IN  PruneCheckpoints(st1)
    ELSE st

\* Track.add_point(timestamp, data) (track.py 507-546) on such a disk
AddPointIO(timestamp, data, io_fails) ==
    /\ fed < MaxFed
    /\ fed' = fed + 1
    /\ IF SchemaMismatch(data)
       THEN /\ last_op' = Called("add_point", DOMAIN data, "ValueError")
            /\ written' = {}
            /\ removed' = {}
            /\ UNCHANGED <<track_vars, files>>
       ELSE LET st0 == TrackState
                full == save_checkpoint_io(st0, TRUE, Some("-full"), io_fails)
                n == Len(full.data_points)
                st1 == IF Overflow(st0.data_points)
                       THEN [full EXCEPT !.data_points =
                               remove_datapoints(full.data_points, 0,
                                                 [num |-> n - 1, den |-> n])]
                       ELSE st0
                datapoint == [timestamp |-> timestamp, input_data |-> data]
                st2 == [st1 EXCEPT !.data_points = Append(st1.data_points, datapoint)]
                st3 == save_checkpoint_io(st2, FALSE, None, io_fails)
            IN  /\ data_points' = st3.data_points
                /\ files' = st3.files
                /\ last_checkpoint' = st3.last_checkpoint
                /\ written' = st3.written
                /\ removed' = st3.removed
                /\ last_op' = Called("add_point", DOMAIN data, "")
                /\ UNCHANGED <<field_names, mode, save_mode, checkpoint_interval,
                               max_checkpoint_files, trim_fraction, max_datapoints,
                               replay_index, save_interval_start>>
    /\ UNCHANGED <<db_vars, now>>

NextIO ==
    \/ \E keys \in KeySets, io_fails \in BOOLEAN :
          AddPointIO(FedTimestamp, FedData(keys), io_fails)
    \/ StartRun
    \/ Tick

SpecIO == Init /\ [][NextIO]_vars

-----------------------------------------------------------------------------
(* Steps and observations the properties speak of *)

\* the step is a call of add_point that passed the schema check
AddStep == fed' = fed + 1 /\ last_op'.raised = ""

\* the step is a call of add_point that found the buffer over max_datapoints
RotationStep == AddStep /\ Len(data_points) > max_datapoints

\* the step is a call of end_run
EndRunStep == last_op'.name = "end_run" /\ now' = now

\* the sample the producer feeds in this step
FedSample(keys) == [timestamp |-> FedTimestamp, input_data |-> FedData(keys)]

FullCheckpointPath == Path("chk", CheckpointFname(now, Some("-full")))

\* the JSON documents of a sequence of data points
Docs(dps) == export_to_json(dps, None).doc

-----------------------------------------------------------------------------
(* C1..C6: the recorder *)

C2_SchemaCheck ==
    [][(fed' = fed + 1 /\ field_names # None) =>
        IF last_op'.arg # field_names[1]
        THEN /\ last_op'.raised = "ValueError"
             /\ UNCHANGED <<data_points, replay_index, last_checkpoint,
                            save_interval_start, files>>
        ELSE /\ last_op'.raised = ""
             /\ data_points' # <<>>
             /\ data_points'[Len(data_points')] = FedSample(last_op'.arg)]_vars

\* an add_point with a key missing was refused on a buffer that holds samples
C2_Witness ==
    /\ last_op.name = "add_point" /\ last_op.raised = "ValueError"
    /\ field_names # None
    /\ last_op.arg = {"a"}
    /\ data_points # <<>>

\* C3 as stated: an add_point that finds the buffer over max_datapoints writes
\* a "-full" checkpoint file and keeps only the last sample before appending,
\* whatever the save_mode.
C3_Original ==
    [][RotationStep =>
        /\ FullCheckpointPath \in written'
        /\ Exists(files', FullCheckpointPath)
        /\ data_points' = <<data_points[Len(data_points)], FedSample(last_op'.arg)>>]_vars

\* C4 as stated: at a rotation that writes the "-full" checkpoint, the file's
\* samples followed by the samples the rotation leaves in the buffer are the
\* buffer as it was before the rotation.
C4_Original ==
    [][(RotationStep /\ FullCheckpointPath \in written'
                     /\ Exists(files', FullCheckpointPath)) =>
        FileAt(files', FullCheckpointPath).content.doc
            \o Docs(SubSeq(data_points', 1, Len(data_points') - 1))
          = Docs(data_points)]_vars

\* the samples of indices start <= i < length (start None: from the first)
RunSlice(dps, start) ==
    SubSeq(dps, (IF start = None THEN 0 ELSE Max(start[1], 0)) + 1, Len(dps))

\* C5 as stated: end_run in continuous mode writes an export holding the
\* samples [run_start_index, length) of the buffer.
C5_Original ==
    [][(EndRunStep /\ save_mode = "continuous") =>
        /\ Exists(files', Path("out", DefaultFname(now)))
        /\ FileAt(files', Path("out", DefaultFname(now))).content.doc
             = Docs(RunSlice(data_points, save_interval_start))]_vars

-----------------------------------------------------------------------------
(* C7: export and load *)

\* the step is a call of load on the file at path
LoadStep(path) ==
    /\ last_op'.name = "load" /\ last_op'.arg = path
    /\ fed' = fed /\ files' = files

\* C7: a save() of the whole buffer as json followed by a load of the file it
\* wrote gives back the same sequence of data points, timestamps and fields.
C7_RoundTrip ==
    [][(/\ last_op.name = "save"
        /\ \E path \in written : LoadStep(path)) =>
            /\ last_op'.raised = ""
            /\ data_points' = data_points]_vars

\* a file that save() wrote was loaded back into samples with a timestamp off
\* the second and with int, float, str, bool and None readings
C7_Witness ==
    /\ last_op.name = "load" /\ last_op.raised = ""
    /\ last_op.arg = Path("out", DefaultFname(1))
    /\ Len(data_points) >= 2
    /\ \E i \in 1..Len(data_points) : data_points[i].timestamp.micro # 0
    /\ \E i \in 1..Len(data_points) : data_points[i].input_data["b"] = <<"float", 1>>
    /\ \E i \in 1..Len(data_points) : data_points[i].input_data["b"] = <<"None">>

-----------------------------------------------------------------------------
(* C8..C10: incremental synchronisation *)

\* the step is a pass of load_tracks_incrementally
IncSyncStep ==
    /\ last_op'.name = "load_tracks_incrementally"
    /\ files' = files /\ now' = now

\* the documents of the store for a filename
DocsOf(d, fname) == {d[i] : i \in {j \in 1..Len(d) : d[j].filename = fname}}

\* C8: a pass of load_tracks_incrementally that follows another one, with no
\* change of the directory in between, leaves the store as the first left it:
\* the same documents with the same fields.
C8_Idempotent ==
    [][(last_op.name = "load_tracks_incrementally" /\ IncSyncStep) => db' = db]_vars

\* after two passes in a row, the second at a later time, the store holds the
\* document of a file whose modification time is older than both, and no
\* document for a file that holds no JSON
C8_Witness ==
    /\ last_op.name = "load_tracks_incrementally" /\ last_op.after = "pass"
    /\ now = 2
    /\ validation
    /\ \E f \in PrimaryJson(files) :
          /\ f.mtime = 0
          /\ \E doc \in DocsOf(db, f.name) : Get(doc, "mtime") = Some(0)
    /\ \E f \in CheckpointJson(files) :
          ~f.content.parses /\ DocsOf(db, f.name) = {}

\* C9: after a pass of load_tracks_incrementally the store holds no document
\* whose filename is that of no file of the primary and checkpoint directories.
C9_NoRecordWithoutFile ==
    last_op.name = "load_tracks_incrementally"
        => \A i \in 1..Len(db) :
              \E f \in files : f.dir \in {"out", "chk"} /\ f.name = db[i].filename

\* a pass has removed the document of a file deleted since the pass before,
\* and kept the document of a file still there
C9_Witness ==
    /\ last_op.name = "load_tracks_incrementally" /\ last_op.raised = ""
    /\ last_op.arg # {}
    /\ \A fname \in last_op.arg : ~\E f \in files : f.name = fname
    /\ db # <<>>

\* the document load_tracks_incrementally inserts for a file it finds new
FreshDocument(fname, mtime) ==
    IncrementalMeta(FileAt(files, GuessedPath(fname)), fname, mtime)

\* a file of the directory that the pass re-extracts: it has a document, of
\* another modification time, and passes validation or validation is off
Modified(f) ==
    /\ f \in PrimaryJson(files) \cup CheckpointJson(files)
    /\ PathOf(f) = GuessedPath(f.name)
    /\ \E doc \in DocsOf(db, f.name) : Get(doc, "mtime") # Some(f.mtime)
    /\ validate_json(f) \/ ~validation

\* C10 as stated: the document of a file found modified is replaced by a
\* fresh one: every field it has afterwards is derived from the directory as
\* it is now.
C10_Original ==
    [][IncSyncStep =>
        \A f \in files : Modified(f) =>
            \A doc \in DocsOf(db', f.name) : doc = FreshDocument(f.name, f.mtime)]_vars

-----------------------------------------------------------------------------
(* C11: derivatives asked of the index *)

\* the step is a call of export_track
ExportStep == last_op'.name = "export_track" /\ now' = now

\* the derivative file the call of last_op'.arg is about, for the document it
\* names in the store as the call finds it
AskedExport ==
    ExportPath(LookupTrack(db, last_op'.arg[1])[1].filename, last_op'.arg[2])

\* C11: an export_track that finds the derivative file on the disk writes no
\* file: the directory, the derivative's content and modification time
\* included, is as before the call.
C11_ExportSkipped ==
    [][(/\ ExportStep
        /\ LookupTrack(db, last_op'.arg[1]) # None
        /\ Exists(files, AskedExport)) =>
            /\ files' = files
            /\ written' = {}]_vars

\* a second export_track of the same track to csv, called later than the
\* first, has left the csv file that the first wrote
C11_Witness ==
    /\ last_op.name = "export_track" /\ last_op.after = "same export"
    /\ last_op.arg = <<(<<"int", 0>>), "csv">>
    /\ written = {}
    /\ now = 2
    /\ \E f \in files :
          /\ PathOf(f) = Path("out", FileName(1, "", FALSE, "csv"))
          /\ f.mtime = 1
          /\ "csv" \in DOMAIN f.content /\ Len(f.content.csv.rows) = 2

-----------------------------------------------------------------------------
(* C12, C13: save() in other formats *)

\* the step is a call of save(file_format) with last_op'.arg the file_format
SaveStep == last_op'.name = "save" /\ fed' = fed /\ now' = now

C13_Original ==
    [][(SaveStep /\ IsCallable(last_op'.arg)) =>
        \E f \in files' :
            /\ PathOf(f) \in written'
            /\ f.content = custom_export(data_points, None).content]_vars

-----------------------------------------------------------------------------
(* C14, C15: start_run and end_run *)

\* the step is a call of start_run, of end_run
StartRunStep == last_op'.name = "start_run" /\ now' = now /\ fed' = fed

\* the buffer without its first n samples
DropFront(dps, n) == SubSeq(dps, n + 1, Len(dps))

\* C14 as stated: start_run on an on-demand recorder makes it continuous, sets
\* the run start index to the buffer length - 1, then removes
\* floor(length * trim_fraction) samples from the front of the buffer.
C14_Original ==
    [][(StartRunStep /\ save_mode = "on-demand") =>
        /\ save_mode' = "continuous"
        /\ save_interval_start' = Some(Len(data_points) - 1)
        /\ data_points' = DropFront(data_points,
                                    IntTimes(Len(data_points), trim_fraction))]_vars

\* C14 amended: start_run on an on-demand recorder makes it continuous, sets
\* the run start index to the buffer length - 1, then, only when the buffer
\* holds two samples or more, removes floor(length * trim_fraction) samples
\* from the front of the buffer; a buffer of one sample is left as it is.
C14_StartRun ==
    [][(StartRunStep /\ save_mode = "on-demand") =>
        /\ save_mode' = "continuous"
        /\ save_interval_start' = Some(Len(data_points) - 1)
        /\ data_points' =
             DropFront(data_points,
                       IF Len(data_points) >= 2
                       THEN IntTimes(Len(data_points), trim_fraction) ELSE 0)]_vars

\* start_run has found an on-demand recorder with three samples and removed
\* the first of them: the run start index, 2, is now the buffer's length
C14_Witness ==
    /\ last_op.name = "start_run" /\ last_op.arg = "on-demand"
    /\ save_mode = "continuous"
    /\ save_interval_start = Some(2)
    /\ trim_fraction = [num |-> 1, den |-> 2]
    /\ Len(data_points) = 2
    /\ data_points[1].input_data["a"][2] = 2

\* C15: start_run on a continuous recorder and end_run on an on-demand one
\* change neither the save_mode, the buffer, the run start index, the time of
\* the last checkpoint nor the files.
C15_RedundantTransition ==
    [][(\/ StartRunStep /\ save_mode = "continuous"
        \/ EndRunStep /\ save_mode = "on-demand") =>
            UNCHANGED <<save_mode, data_points, save_interval_start,
                        last_checkpoint, files>>]_vars

\* end_run has found the recorder on-demand, with samples in the buffer and
\* checkpoint files in the directory
C15_Witness ==
    /\ last_op.name = "end_run" /\ last_op.arg = "on-demand"
    /\ data_points # <<>>
    /\ NonFullCheckpoints(files) # {}

-----------------------------------------------------------------------------
(* C16..C18: the checkpoint files *)

\* the step is a call of add_point, returning or raising
AddCall == fed' = fed + 1

DeletedMtime(path) == IF path \in written' THEN now ELSE FileAt(files, path).mtime

\* C17: an add_point on a continuous recorder that finds at most
\* max_checkpoint_files checkpoints other than the "-full" ones leaves at most
\* that many; it deletes at most one file, and that file was the oldest of
\* them by modification time.
C17_Retention ==
    [][(/\ AddCall
        /\ save_mode = "continuous"
        /\ Cardinality(NonFullCheckpoints(files)) <= max_checkpoint_files) =>
            /\ Cardinality(NonFullCheckpoints(files')) <= max_checkpoint_files
            /\ Cardinality(removed') <= 1
            /\ \A path \in removed' :
                  /\ path.dir = "chk" /\ path.name.tag # "-full"
                  /\ \A g \in NonFullCheckpoints(files') :
                        DeletedMtime(path) <= g.mtime]_vars

\* an add_point has written a checkpoint and deleted an older one, leaving
\* max_checkpoint_files of them
C17_Witness ==
    /\ last_op.name = "add_point" /\ last_op.raised = ""
    /\ save_mode = "continuous"
    /\ written # {} /\ removed # {}
    /\ \A path \in removed : path \notin written
    /\ Cardinality(NonFullCheckpoints(files)) = max_checkpoint_files

\* C18: no add_point, start_run or end_run deletes a "-full" checkpoint file:
\* one that is in the checkpoint directory before the call is there after it.
C18_FullKept ==
    [][\A f \in FullCheckpoints(files) :
          /\ Exists(files', PathOf(f))
          /\ PathOf(f) \notin removed']_vars

\* an end_run has deleted checkpoints and left a "-full" one that a rotation
\* of this recorder wrote
C18_Witness ==
    /\ last_op.name = "end_run"
    /\ removed # {}
    /\ \E f \in FullCheckpoints(files) : f.mtime >= 1

-----------------------------------------------------------------------------
(* C19, C20: replay *)

\* the step is a call of load on a file that parses
LoadsWellFormed ==
    /\ last_op'.name = "load" /\ fed' = fed /\ files' = files
    /\ Exists(files, last_op'.arg)
    /\ FileAt(files, last_op'.arg).content.parses

\* C19 as stated: load of a well-formed file, in any state of the recorder,
\* replaces the buffer with the samples of the file, sets the mode to replay
\* and sets the replay cursor to 0.
C19_Original ==
    [][LoadsWellFormed =>
        /\ data_points' = LoadedDataPoints(FileAt(files, last_op'.arg).content)
        /\ mode' = "replay"
        /\ replay_index' = 0]_vars

\* the step is a call of get_current
GetCurrentStep == last_op'.name = "get_current" /\ fed' = fed /\ files' = files

-----------------------------------------------------------------------------
(* C21..C25: what a synchronisation pass indexes *)

\* the formats a document records as exported
ExportsOf(doc) ==
    IF "exports" \in DOMAIN doc
    THEN {doc.exports[i] : i \in 1..Len(doc.exports)} ELSE {}

\* the extensions ext for which the directory holds a derivative file
\* "<base>.<ext>" of the track file fname
DerivativesOnDisk(fs, fname) ==
    {ext \in ExportFormats :
        \E f \in fs : /\ f.dir = "out" /\ f.name.ext = ext
                      /\ Stem(f.name) = BaseName(fname)}

\* a file of the two directories that a pass finds new or modified, before
\* the pass: it has no document, or one of another modification time
Dirty(f) ==
    /\ f \in PrimaryJson(files) \cup CheckpointJson(files)
    /\ IsDirty(ExistingTrack(db, f.name), f.mtime)

\* a dirty file that the pass extracts: it passes validation, or validation
\* is off
Reextracted(f) == Dirty(f) /\ (validate_json(f) \/ ~validation)

\* C21 as stated: after a pass of load_tracks_incrementally every document,
\* also that of a file the pass found unchanged, records every format whose
\* derivative file is on the disk.
C21_Original ==
    last_op.name = "load_tracks_incrementally"
        => \A i \in 1..Len(db) :
              DerivativesOnDisk(files, db[i].filename) \subseteq ExportsOf(db[i])

\* C21, amended: a pass of load_tracks_incrementally attaches the derivative
\* files it discovers to the documents of the files it finds new or modified
\* and extracts: each of them records every format whose derivative is on the
\* disk.  The document of a file it finds unchanged keeps the exports it had.
C21_AttachedWhenDirty ==
    [][IncSyncStep =>
        \A f \in PrimaryJson(files) \cup CheckpointJson(files) :
            /\ Reextracted(f) =>
                  \A doc \in DocsOf(db', f.name) :
                      DerivativesOnDisk(files, f.name) \subseteq ExportsOf(doc)
            /\ ~Dirty(f) =>
                  {ExportsOf(doc) : doc \in DocsOf(db', f.name)}
                      = {ExportsOf(doc) : doc \in DocsOf(db, f.name)}]_vars

\* a pass has left two documents of the same stem beside a csv derivative:
\* the one of the export, found unchanged, does not record csv; the one of
\* the checkpoint, modified since the pass before, does
C21_Witness ==
    /\ last_op.name = "load_tracks_incrementally" /\ last_op.raised = ""
    /\ \E doc \in DocsOf(db, DefaultFname(1)) :
          /\ "csv" \in DerivativesOnDisk(files, doc.filename)
          /\ "csv" \notin ExportsOf(doc)
          /\ "mtime" \in DOMAIN doc
    /\ \E doc \in DocsOf(db, CheckpointFname(1, None)) :
          /\ "csv" \in ExportsOf(doc)
          /\ Get(doc, "mtime") = Some(2)

\* the store holds a document for the file f whose recorded modification time
\* is the one f has now
StoredMtimeEqual(d, f) ==
    LET db_track == ExistingTrack(d, f.name)
    IN  db_track # None /\ Get(db_track[1], "mtime") = Some(f.mtime)

\* the document carries every field of meta, with meta's value
Carries(doc, meta) ==
    \A k \in DOMAIN meta : k \in DOMAIN doc /\ doc[k] = meta[k]

\* C22: a pass of load_tracks_incrementally decides on the modification time
\* alone.  The documents of a file whose recorded modification time equals
\* the file's are left as they were, whatever the file holds now; a file with
\* no document, or with another recorded modification time, is validated and,
\* when it passes or validation is off, has a document that carries the
\* metadata extracted from what it holds now.
C22_MtimeOnly ==
    [][IncSyncStep =>
        \A f \in PrimaryJson(files) \cup CheckpointJson(files) :
            /\ StoredMtimeEqual(db, f) =>
                  DocsOf(db', f.name) = DocsOf(db, f.name)
            /\ (~StoredMtimeEqual(db, f) /\ (validate_json(f) \/ ~validation)) =>
                  /\ DocsOf(db', f.name) # {}
                  /\ \A doc \in DocsOf(db', f.name) :
                        Carries(doc, FreshDocument(f.name, f.mtime))]_vars

\* a pass that follows a change of the directory has left the document of a
\* file of no sample with the sample count of two that the file had when it
\* was indexed: the file was rewritten within the same second
C22_Witness ==
    /\ last_op.name = "load_tracks_incrementally" /\ last_op.after = ""
    /\ \E f \in PrimaryJson(files) : \E doc \in DocsOf(db, f.name) :
          /\ Get(doc, "mtime") = Some(f.mtime)
          /\ f.content = NoSample
          /\ Get(doc, "datapoint_count") = Some(2)

\* the last call was a synchronisation pass, incremental or full
AfterSync == last_op.name \in {"load_tracks_incrementally", "load_tracks"}

\* C23 as stated: with validation on, after a pass of
\* load_tracks_incrementally or of load_tracks the store holds no document for
\* a file of the two directories that fails validation now.
C23_Original ==
    (validation /\ AfterSync)
        => \A f \in PrimaryJson(files) \cup CheckpointJson(files) :
              ~validate_json(f) => DocsOf(db, f.name) = {}

\* the step is a synchronisation pass, incremental or full
SyncStep ==
    /\ last_op'.name \in {"load_tracks_incrementally", "load_tracks"}
    /\ files' = files /\ now' = now

\* a file that the pass of the step has to index: it passes validation, and
\* the pass is a full one or finds it new or modified
ToIndex(f) ==
    /\ f \in PrimaryJson(files) \cup CheckpointJson(files)
    /\ validate_json(f)
    /\ last_op'.name = "load_tracks" \/ Dirty(f)

\* the store d holds a document for f extracted from what f holds now
Indexed(d, f) ==
    /\ DocsOf(d, f.name) # {}
    /\ \A doc \in DocsOf(d, f.name) :
          Get(doc, "datapoint_count") = Some(Len(f.content.doc))

\* C24 as stated: a pass that meets a file failing validation, because it
\* cannot be parsed or because it violates the schema, raises nothing and
\* indexes every valid file that it has to index.
C24_Original ==
    [][(SyncStep /\ \E g \in PrimaryJson(files) \cup CheckpointJson(files) :
                        ~validate_json(g)) =>
            /\ last_op'.raised = ""
            /\ \A f \in files : ToIndex(f) => Indexed(db', f)]_vars

\* the positions of the store d that hold a document for the file f
RecordsOf(d, f) ==
    {i \in 1..Len(d) : d[i].filename = f.name /\ d[i].filepath = PathOf(f)}

\* a file that a pass has to hold a document for: a *.json of the primary
\* directory or a *.chk.json of the checkpoint directory that passes
\* validation, or any of them when validation is off
Eligible(f) ==
    /\ f \in PrimaryJson(files) \cup CheckpointJson(files)
    /\ validate_json(f) \/ ~validation

\* C25 as stated: after load_tracks the store holds exactly one document for
\* each file that is eligible, and no other document; each document records
\* the formats whose derivative files are on the disk, and no other format.
C25_Original ==
    last_op.name = "load_tracks"
        => /\ \A f \in files : Eligible(f) =>
                  /\ Cardinality(RecordsOf(db, f)) = 1
                  /\ \A i \in RecordsOf(db, f) :
                        ExportsOf(db[i]) = DerivativesOnDisk(files, f.name)
           /\ \A i \in 1..Len(db) :
                  \E f \in files : Eligible(f) /\ i \in RecordsOf(db, f)

-----------------------------------------------------------------------------
(* C26..C28: paths and removal *)

\* the document is flagged as a checkpoint (database.py 546)
Flagged(doc) == IF "checkpoint" \in DOMAIN doc THEN doc.checkpoint ELSE FALSE

\* C26: get_track_path raises nothing.  It returns None for a position out of
\* range, for a filename of no document, and for a document whose file is in
\* neither directory; the path in the checkpoint directory for a document
\* flagged as checkpoint whose file is there; and, for a document not
\* flagged, the path in the primary directory or None.  A path it returns is
\* that of a file on the disk.
C26_ResolvePath ==
    last_op.name = "get_track_path" =>
        LET track == LookupTrack(db, last_op.arg[1])
            path == last_op.arg[2]
        IN  /\ last_op.raised = ""
            /\ path # None => Exists(files, path[1])
            /\ track = None => path = None
            /\ track # None =>
                  LET in_chk == Path("chk", track[1].filename)
                      in_out == Path("out", track[1].filename)
                  IN  /\ (~Exists(files, in_chk) /\ ~Exists(files, in_out))
                            => path = None
                      /\ (Flagged(track[1]) /\ Exists(files, in_chk))
                            => path = Some(in_chk)
                      /\ ~Flagged(track[1]) => path \in {None, Some(in_out)}

\* get_track_path has returned the path in the checkpoint directory for the
\* second document of the store, which is flagged, while the primary
\* directory holds the export of the first
C26_Witness ==
    /\ last_op.name = "get_track_path"
    /\ last_op.arg = <<(<<"int", 1>>), Some(Path("chk", CheckpointFname(1, None)))>>
    /\ Len(db) = 2 /\ Flagged(db[2]) /\ ~Flagged(db[1])
    /\ Exists(files, Path("out", DefaultFname(1)))

\* the step is a call of remove_track
RemoveStep == last_op'.name = "remove_track" /\ now' = now

\* the file the call of the step resolves its identifier to, before the call
Resolved == get_track_path(db, files, last_op'.arg[1])

C28_IndexBeforeDisk ==
    [][(/\ RemoveStep
        /\ last_op'.arg[2]
        /\ Resolved # None
        /\ files' = files) =>
            /\ last_op'.raised # ""
            /\ DocsOf(db, Resolved[1].name) # {}
            /\ DocsOf(db', Resolved[1].name) = {}
            /\ Exists(files', Resolved[1])]_vars

\* a remove_track with delete_from_disk has raised after os.remove failed:
\* the export, a valid track, is on the disk and has no document
C28_Witness ==
    /\ last_op.name = "remove_track" /\ last_op.arg[2]
    /\ last_op.raised = "TypeError"
    /\ removed = {}
    /\ DocsOf(db, DefaultFname(1)) = {}
    /\ \E f \in PrimaryJson(files) : f.name = DefaultFname(1) /\ validate_json(f)

-----------------------------------------------------------------------------
(* C29: two calls of export_track at once *)

\* the step is the export of the caller c, who found no derivative when it
\* tested for one
ExportFileStep(c) ==
    /\ exporting[c].pc = "export"
    /\ exporting'[c].pc # "export"

\* the derivative the call of c is about
CallExport(c) ==
    ExportPath(exporting[c].track[1].filename, exporting[c].export_format)

\* the track file the call of c finds holds the two samples
CallLoads(c) ==
    LET track_path == get_track_path(db, files, exporting[c].track_id)
    IN  track_path # None /\ FileAt(files, track_path[1]).content = TwoSamples

\* C29: nothing keeps two calls of export_track for the same derivative
\* apart.  A call that found the derivative missing, and comes to its export
\* after another call has written the file, calls the exporter all the same
\* and writes the file again.
C29_NotDeduplicated ==
    [][\A c \in Callers :
          (/\ ExportFileStep(c)
           /\ CallLoads(c)
           /\ Exists(files, CallExport(c))) =>
                /\ exporting'[c].wrote
                /\ written' = {CallExport(c)}
                /\ FileAt(files', CallExport(c)).mtime = now]_vars

\* both callers asked for the csv of the first track, both have called the
\* exporter and written the file, the second a second after the first, and
\* neither has returned
C29_Witness ==
    /\ \A c \in Callers :
          /\ exporting[c].pc = "update"
          /\ exporting[c].track_id = <<"int", 0>>
          /\ exporting[c].export_format = "csv"
          /\ exporting[c].wrote
    /\ now = 2
    /\ written = {Path("out", FileName(1, "", FALSE, "csv"))}
    /\ FileAt(files, Path("out", FileName(1, "", FALSE, "csv"))).mtime = 2

-----------------------------------------------------------------------------
(* C30: the gpx export *)

\* the last call was save(file_format="gpx")
SavedGpx == last_op.name = "save" /\ last_op.arg = "gpx"

\* the points of the gpx file the call wrote
GpxPoints == FileAt(files, CHOOSE path \in written : TRUE).content.gpx

\* the sample has a key for the latitude and a key for the longitude whose
\* values are not None
HasCoordinates(dp) ==
    /\ \E k \in DOMAIN dp.input_data \cap LatKeys : dp.input_data[k] # <<"None">>
    /\ \E k \in DOMAIN dp.input_data \cap LonKeys : dp.input_data[k] # <<"None">>

\* the first latitude key of the sample and its first longitude key, in the
\* order of its keys, are there and their values are not None
FirstCoordinates(dp) ==
    LET lat == DOMAIN dp.input_data \cap LatKeys
        lon == DOMAIN dp.input_data \cap LonKeys
    IN  /\ lat # {} /\ dp.input_data[FirstKey(lat)] # <<"None">>
        /\ lon # {} /\ dp.input_data[FirstKey(lon)] # <<"None">>

\* C30 as stated: a save as gpx raises nothing and writes a file kept one
\* point for each sample of the buffer that has a latitude key and a
\* longitude key of values other than None, and none for the others.
C30_Original ==
    SavedGpx =>
        /\ last_op.raised = "" /\ written # {}
        /\ Len(GpxPoints) <= Len(data_points)
        /\ Len(GpxPoints) = Len(SelectSeq(data_points, HasCoordinates))

\* C30, amended: a save as gpx raises nothing and writes a file kept one
\* point, in the order of the buffer and kept the sample's time, for each
\* sample whose first latitude key and first longitude key hold values other
\* than None; every other sample is skipped, one kept a second longitude key
\* that holds a value included.
C30_GpxPoints ==
    SavedGpx =>
        LET kept == SelectSeq(data_points, FirstCoordinates)
        IN  /\ last_op.raised = "" /\ written # {}
            /\ Len(GpxPoints) <= Len(data_points)
            /\ Len(GpxPoints) = Len(kept)
            /\ \A i \in 1..Len(kept) :
                  GpxPoints[i].time = IsoFormat(kept[i].timestamp)

\* a buffer of three samples was saved as gpx: one has a position, one has no
\* longitude, one has None under "lon" and a value under "long"; the file has
\* one point
C30_Witness ==
    /\ SavedGpx
    /\ Len(data_points) = 3
    /\ \E i, j, k \in 1..3 :
          /\ DOMAIN data_points[i].input_data = {"lat", "lon"}
          /\ FirstCoordinates(data_points[i])
          /\ DOMAIN data_points[j].input_data = {"lat"}
          /\ DOMAIN data_points[k].input_data = {"lat", "lon", "long"}
    /\ Len(GpxPoints) = 1
-----------------------------------------------------------------------------
(* C31: the buffer bound over two calls of add_point *)

\* an add_point has returned and left the buffer over max_datapoints
AddedOver ==
    /\ last_op.name = "add_point" /\ last_op.raised = ""
    /\ Len(data_points) > max_datapoints

-----------------------------------------------------------------------------
(* C32: the modification time a pass stores *)

\* the document stores the modification time that its file has now
MtimeCurrent(doc) ==
    \E f \in files : /\ PathOf(f) = doc.filepath
                     /\ Get(doc, "mtime") = Some(f.mtime)

\* C32 as stated: after a completed pass of load_tracks or of
\* load_tracks_incrementally every document stores the modification time its
\* file has now; and a pass of load_tracks_incrementally that directly follows
\* a load_tracks, the directory unchanged, finds no file new or modified and
\* leaves the store as it is.
C32_Original ==
    /\ []((AfterSync /\ last_op.raised = "")
            => \A i \in 1..Len(db) : MtimeCurrent(db[i]))
    /\ [][(last_op.name = "load_tracks" /\ last_op.raised = "" /\ IncSyncStep) =>
            /\ \A f \in files : ~Reextracted(f)
            /\ db' = db]_vars
-----------------------------------------------------------------------------
(* C33: the samples of a run *)

\* the JSON documents held by the file at path, none when there is no file
SamplesAt(fs, path) ==
    IF Exists(fs, path)
    THEN {FileAt(fs, path).content.doc[i] :
            i \in 1..Len(FileAt(fs, path).content.doc)}
    ELSE {}

\* the documents held by the "-full" checkpoints of the checkpoint directory
FullSamples(fs) == UNION {SamplesAt(fs, PathOf(f)) : f \in FullCheckpoints(fs)}

\* the last call was an add_point that returned, within a run that a
\* start_run began: the last sample of the buffer was added during the run
AddedInRun ==
    /\ last_op.name = "add_point" /\ last_op.raised = ""
    /\ save_mode = "continuous" /\ save_interval_start # None

\* C33 as stated: a sample added between a start_run and the end_run that
\* ends the run is in the export that end_run writes or in a "-full"
\* checkpoint.  Stated for the sample added last before the end_run.
C33_Original ==
    [][(AddedInRun /\ EndRunStep) =>
        Docs(data_points)[Len(data_points)]
            \in SamplesAt(files', Path("out", DefaultFname(now)))
                    \cup FullSamples(files')]_vars
-----------------------------------------------------------------------------
(* C34: the buffer as a run of the samples fed *)

\* the sequences left when samples are removed from the front of dps
Suffixes(dps) == {SubSeq(dps, k + 1, Len(dps)) : k \in 0..Len(dps)}

-----------------------------------------------------------------------------
(* C35: the transitions of save_mode *)

\* C35 as stated: save_mode changes only from on-demand to continuous, by
\* start_run, and from continuous to on-demand, by end_run; a recorder whose
\* save_mode is none stays in none, writes no export and deletes no
\* checkpoint file, whatever is called.
C35_Original ==
    [][/\ save_mode' # save_mode =>
            \/ /\ save_mode = "on-demand" /\ save_mode' = "continuous"
               /\ last_op'.name = "start_run"
            \/ /\ save_mode = "continuous" /\ save_mode' = "on-demand"
               /\ last_op'.name = "end_run"
       /\ save_mode = "none" =>
            /\ save_mode' = "none"
            /\ \A path \in written' : path.dir # "out"
            /\ \A path \in removed' : path.dir # "chk"]_vars
-----------------------------------------------------------------------------
(* C36: the replay cursor and the buffer *)

\* C36 as stated: in every reachable state of the recorder the replay cursor
\* is at least 0 and at most the length of the buffer.
C36_Original == 0 <= replay_index /\ replay_index <= Len(data_points)
-----------------------------------------------------------------------------
(* C37: the exports a document records and the derivative files *)

\* C37 as stated: when export_track(track_id, export_format) has returned,
\* the document of the track records export_format only if the derivative
\* file of that format is in the directory, also when the export failed.
C37_Original ==
    last_op.name = "export_track" =>
        LET track == LookupTrack(db, last_op.arg[1])
            export_format == last_op.arg[2]
        IN  (track # None /\ export_format \in ExportsOf(track[1]))
                => Exists(files, ExportPath(track[1].filename, export_format))
-----------------------------------------------------------------------------
(* C38: a track removed from the index and left on the disk *)

\* the last call removed the documents of a filename and left the file
RemovedKept(fname) ==
    /\ last_op.name = "remove_track" /\ last_op.raised = ""
    /\ last_op.arg = <<<<"str", fname>>, FALSE>>

\* a file of the primary or of the checkpoint directory named fname that a
\* pass reads at the path it guesses and that passes validation, or validation
\* is off
Readable(fname) ==
    /\ Exists(files, GuessedPath(fname))
    /\ Eligible(FileAt(files, GuessedPath(fname)))

\* the filenames remove_track is called with
RemovedNames == {DefaultFname(1), CheckpointFname(1, None)}

\* C38 as stated: after remove_track(filename, delete_from_disk=False) a pass
\* of load_tracks_incrementally, the file unchanged, inserts no document for
\* that filename.
C38_Original ==
    [][\A fname \in RemovedNames :
          (RemovedKept(fname) /\ IncSyncStep) => DocsOf(db', fname) = {}]_vars

\* C38 amended: after remove_track(filename, delete_from_disk=False) the store
\* holds no document for the filename, and the pass of
\* load_tracks_incrementally that follows and completes finds the file new:
\* it inserts one document for it, kept the file's modification time, when
\* the file passes validation or validation is off.
C38_Reinserted ==
    [][\A fname \in RemovedNames :
          (RemovedKept(fname) /\ IncSyncStep) =>
              /\ DocsOf(db, fname) = {}
              /\ (Readable(fname) /\ last_op'.raised = "") =>
                    /\ Cardinality({i \in 1..Len(db') : db'[i].filename = fname}) = 1
                    /\ \A doc \in DocsOf(db', fname) :
                          Get(doc, "mtime")
                              = Some(FileAt(files, GuessedPath(fname)).mtime)]_vars

\* a pass that followed the removal of the final export's document has
\* indexed the file again: its document now comes after the checkpoint's,
\* where the index built from the directory has it first, and the file is as
\* it was when the index was built
C38_Witness ==
    /\ last_op.name = "load_tracks_incrementally" /\ last_op.raised = ""
    /\ Len(db) = 2
    /\ db[1].filename = CheckpointFname(1, None)
    /\ db[2].filename = DefaultFname(1)
    /\ Get(db[2], "mtime") = Some(0)
    /\ Get(db[2], "datapoint_count") = Some(2)
    /\ \E f \in files : PathOf(f) = Path("out", DefaultFname(1)) /\ f.mtime = 0
    /\ ~Exists(files, Path("out", CheckpointFname(1, None)))
-----------------------------------------------------------------------------
(* C39: one document for a filename *)

\* C39 as stated: after any call of load_tracks, load_tracks_incrementally,
\* export_track or remove_track, the calls made one at a time, no two
\* documents of the store have the same filename, wherever the files are.
C39_Original ==
    last_op.name \in {"load_tracks", "load_tracks_incrementally",
                      "export_track", "remove_track"}
        => \A i, j \in 1..Len(db) : db[i].filename = db[j].filename => i = j
-----------------------------------------------------------------------------
(* C40: the time of the last checkpoint *)

\* C40 as stated: _last_checkpoint advances only when a checkpoint file was
\* written: an add_point that returns and writes no file, the write of a due
\* checkpoint having failed or no checkpoint being due, leaves
\* _last_checkpoint as it was, so that the next add_point finds the checkpoint
\* due again.
C40_Original ==
    [][(AddStep /\ written' = {}) => last_checkpoint' = last_checkpoint]_vars

====
